---- MODULE Spec2Model ----
(***************************************************************************)
(* Model of the braille bandwidth chart of marcodenic/peaks                *)
(* (package internal/chart): the sample buffer, the visible-window         *)
(* aggregation, the scaling functions, the glyph compositor, the column    *)
(* cache, the Render and RenderCompactWithSize entry points, and of the    *)
(* statistics and the message handlers of the full-screen program          *)
(* (internal/ui, cmd/peaks).                                               *)
(*                                                                         *)
(* Numbers.  Samples are byte rates (uint64).  The model draws them from   *)
(* {0, 512, 1024, 2048, 4096, 8192} and renders charts of height 8 and 10  *)
(* (16, 20, 32 and 40 dots per axis).  On these values the integer         *)
(* formulas below give the dot heights of the Go code,                     *)
(* int(scale * float64(dots)), where scale is the float64 that scaleValue  *)
(* returns; the same holds for the gradient step of getGradientStepIndex.  *)
(* (The float64 results differ from the integer formulas elsewhere, for    *)
(* example for 4096 on a maximum of 8192 on axes of 24, 36 or 48 dots.)    *)
(*                                                                         *)
(* Scope.  The windowed column loop of Render and the column cache are not *)
(* part of the available source; they are modelled from the specification  *)
(* (sections 3, 4.3 and 4.6, lazy rescaling: a cached column is reused     *)
(* only while maxValue, display mode and size are the ones it was drawn    *)
(* with), with the column of each window as debugWindows prints it.  A     *)
(* styled cell is represented by its dot mask, series and gradient step.   *)
(* The process-wide caches of styled characters are modelled on their own  *)
(* (SpecStyle); Render is modelled without them, which is exact for chart  *)
(* heights below 21, where no two gradient positions share a cache key and *)
(* differ in their gradient step.  The tick loop of the full-screen        *)
(* program is one flag: a tick command is outstanding.  SpecCycle cycles   *)
(* the scaling mode and the time scale of a new chart; SpecWide is the     *)
(* refresh loop of the compact daemon on a terminal wider than the chart.  *)
(***************************************************************************)
EXTENDS Integers, Sequences, FiniteSets, TLC

VARIABLES
    uploadData,     \* bc.uploadData
    downloadData,   \* bc.downloadData
    maxPoints,      \* bc.maxPoints
    width,          \* bc.width
    height,         \* bc.height
    maxValue,       \* bc.maxValue
    currentMax,     \* bc.currentMax
    overlayMode,    \* bc.overlayMode
    scalingMode,    \* bc.scalingMode
    timeScale,      \* bc.timeScale
    columnCache,    \* the column cache of closed windows
    platform,       \* what int() yields for NaN and +Inf on this build
    screen,         \* the columns of the text block returned by the last Render
    lastOp,         \* ghost: name of the last public operation
    hist,           \* ghost: every sample appended since construction
    onlyAppends,    \* ghost: no Reset / SetMaxPoints happened so far
    since,          \* ghost: what happened since the last Render ("render2":
                    \*        nothing, and it followed another Render)
    screenLen,      \* ghost: buffer length at the last Render
    screenMax,      \* ghost: the maxValue the last Render scaled with
    staleKeys,      \* ghost: cache entries stored before the last Reset / mode change
    servedStale,    \* ghost: the last Render returned such an entry
    spiked,         \* ghost: a non-background sample was appended
    others,         \* ghost: number of calls other than AddDataPoint and Render
    lastArg,        \* ghost: the integer argument of the last call (0 for none)
    dropped,        \* ghost: number of samples the last call removed
    cacheModes,     \* ghost: the <<scalingMode, timeScale>> pairs the cached
                    \*        columns were rendered under
    model,          \* the Bubble Tea model of the full-screen program
    stats,          \* ui.Stats: totals and peaks
    updates,        \* ghost: the pairs passed to Stats.Update since creation
                    \*        or the last Stats.Reset
    msg,            \* ghost: the last message the program handled
    msgs,           \* ghost: number of messages handled
    pauses,         \* ghost: number of Pause keys handled
    skipped,        \* ghost: number of ticks handled while paused
    uploadCharCache,    \* process-wide cache of styled upload characters
    downloadCharCache,  \* process-wide cache of styled download characters
    styled,         \* the styled character the last styling call returned
    styleCall,      \* ghost: the arguments of the last styling call
    trail,          \* ghost: the run of consecutive calls of one Cycle
                    \*        operation: its name, the value it started from
                    \*        and the values the calls returned
    ticking         \* a tick command returned by Init or Update is
                    \*        outstanding: its tickMsg is still to come

chartVars == <<uploadData, downloadData, maxPoints, width, height, maxValue,
               currentMax, overlayMode, scalingMode, timeScale, columnCache,
               platform>>
ghostVars == <<lastOp, hist, onlyAppends, since, screenLen, screenMax, staleKeys,
               servedStale, spiked, others, lastArg, dropped, cacheModes>>
styleVars == <<uploadCharCache, downloadCharCache, styled, styleCall>>
appVars == <<model, stats, updates, msg, msgs, pauses, skipped, styleVars, trail,
             ticking>>
vars == <<chartVars, screen, ghostVars, appVars>>

(***************************************************************************)
(* Bounds of the model (not program constants).                            *)
(***************************************************************************)
MaxAppends == 5
MaxInitPoints == 3
MaxScroll == 66
MaxScrolled == 2
MaxOthers == 1
MaxBufOthers == 2
MaxSteps == 6
SmallPoints == 4
MaxSizeArg == 3
MaxSizeCalls == 3
MaxScaleSteps == 3
MaxScaleOthers == 1
ScalePoints == 2
MaxExtraRows == 1
MaxCompactAppends == 6
MaxExtraLines == 1
MaxMsgs == 4
EvictPoints == 6
MaxEvictAppends == 8
MaxStyleCalls == 2
MaxCycleCalls == 7
MaxWider == 2
MaxWideAppends == 21
MaxModeArg == 1

(***************************************************************************)
(* Program constants.                                                      *)
(***************************************************************************)
MinChartHeight == 8
MinChartWidth == 20
brailleDots == 4
defaultChartWidth == 80
defaultChartHeight == 20
minScale == 1024
minLogValue == 1024

ScalingLinear == 0
ScalingLogarithmic == 1
ScalingSquareRoot == 2

TimeScale1Min == 0
TimeScale3Min == 1
TimeScale5Min == 2
TimeScale10Min == 3
TimeScale15Min == 4
TimeScale30Min == 5
TimeScale60Min == 6

TimeScales == TimeScale1Min..TimeScale60Min
ScalingModes == ScalingLinear..ScalingSquareRoot

(***************************************************************************)
(* Helpers.                                                                *)
(***************************************************************************)
Max2(a, b) == IF a > b THEN a ELSE b

Min2(a, b) == IF a < b THEN a ELSE b

\* Maximum of the values s[i], lo <= i < hi (0-based indices as in the Go
\* loops), starting from acc; indices outside the slice are skipped.
MaxFrom(s, lo, hi, acc) ==
    LET vals == {s[i] : i \in (lo + 1)..Min2(hi, Len(s))} \cup {acc}
    IN CHOOSE m \in vals : \A o \in vals : o <= m

\* Mutation of DropFirst: the newest elements are dropped instead
DropNewest(s, n) == SubSeq(s, 1, Len(s) - n)

\* The Go slice s[n:]
DropFirst(s, n) == SubSeq(s, n + 1, Len(s))

(***************************************************************************)
(* Sample buffer.                                                          *)
(***************************************************************************)
\* Mutation of recalculateMax: the rescan stops after the upload series
recalculateMaxUploadOnly(up, down) == MaxFrom(up, 0, Len(up), 0)

\* recalculateMax: full rescan of both series
recalculateMax(up, down) ==
    MaxFrom(down, 0, Len(down), MaxFrom(up, 0, Len(up), 0))

\* updateCurrentMax
updateCurrentMax(cm, upload, download) ==
    Max2(Max2(cm, upload), download)

\* Mutation of trimDataIfNeeded: only the upload series is trimmed
trimUploadOnly(up, down, cm, mp) ==
    LET up1 == IF Len(up) > mp THEN DropFirst(up, 1) ELSE up
        cm1 == IF Len(up) > mp /\ Head(up) = cm
               THEN recalculateMax(up1, down) ELSE cm
    IN [up |-> up1, down |-> down, cm |-> cm1]

\* trimDataIfNeeded: the upload series is trimmed first (with its own
\* rescan), then the download series.
trimDataIfNeeded(up, down, cm, mp) ==
    LET up1 == IF Len(up) > mp THEN DropFirst(up, 1) ELSE up
        cm1 == IF Len(up) > mp /\ Head(up) = cm
               THEN recalculateMax(up1, down) ELSE cm
        down1 == IF Len(down) > mp THEN DropFirst(down, 1) ELSE down
        cm2 == IF Len(down) > mp /\ Head(down) = cm1
               THEN recalculateMax(up1, down1) ELSE cm1
    IN [up |-> up1, down |-> down1, cm |-> cm2]

\* GetDataLength
GetDataLength(up, down) == Max2(Len(up), Len(down))

DataLen == GetDataLength(uploadData, downloadData)

(***************************************************************************)
(* Time scale and window layout.                                           *)
(***************************************************************************)
GetTimeScaleSeconds(ts) ==
    CASE ts = TimeScale1Min -> 60
      [] ts = TimeScale3Min -> 180
      [] ts = TimeScale5Min -> 300
      [] ts = TimeScale10Min -> 600
      [] ts = TimeScale15Min -> 900
      [] ts = TimeScale30Min -> 1800
      [] ts = TimeScale60Min -> 3600
      [] OTHER -> 60

\* windowSize := timeScaleSeconds / 60, at least 1
WindowSizeOf(ts) == Max2(GetTimeScaleSeconds(ts) \div 60, 1)

WindowSize == WindowSizeOf(timeScale)

\* Mutation of TotalCompleteWindows: a window that is still filling counts
\* as complete
TotalCompleteWindowsRoundedUp(dataLen, k) == (dataLen + k - 1) \div k

\* totalCompleteWindows := dataLen / windowSize
TotalCompleteWindows(dataLen, k) == dataLen \div k

\* Mutation of TotalWindows: the partial window is not counted
TotalWindowsNoPartial(dataLen, k) == dataLen \div k

\* totalWindows: complete windows plus the partial one
TotalWindows(dataLen, k) ==
    TotalCompleteWindows(dataLen, k) + (IF dataLen % k # 0 THEN 1 ELSE 0)

\* firstVisibleWindow
FirstVisibleWindow(dataLen, k, w) ==
    IF TotalWindows(dataLen, k) > w THEN TotalWindows(dataLen, k) - w ELSE 0

\* windowStartIndex and the clipped windowEndIndex of window i
WindowStart(i, k) == i * k

WindowEnd(i, k, dataLen) == Min2(i * k + k, dataLen)

\* Mutation of getVisibleDataMax: the last w raw samples at every time scale
getVisibleDataMaxRawTail(up, down, w, ts) ==
    LET dataLen == GetDataLength(up, down)
        startIndex == IF dataLen > w THEN dataLen - w ELSE 0
    IN IF dataLen = 0 THEN 0
       ELSE MaxFrom(down, startIndex, Len(down),
                    MaxFrom(up, startIndex, Len(up), 0))

\* getVisibleDataMax
getVisibleDataMax(up, down, w, ts) ==
    LET dataLen == GetDataLength(up, down)
        k == WindowSizeOf(ts)
        first == FirstVisibleWindow(dataLen, k, w)
        total == TotalWindows(dataLen, k)
        lastShown == Min2(total, first + w) - 1
        WinMax[i \in (first - 1)..lastShown] ==
            IF i < first THEN 0
            ELSE LET s == WindowStart(i, k)
                     e == WindowEnd(i, k, dataLen)
                 IN IF s >= dataLen THEN WinMax[i - 1]
                    ELSE MaxFrom(down, s, e, MaxFrom(up, s, e, WinMax[i - 1]))
        startIndex == IF dataLen > w THEN dataLen - w ELSE 0
    IN IF dataLen = 0 THEN 0
       ELSE IF ts # TimeScale1Min THEN WinMax[lastShown]
       ELSE MaxFrom(down, startIndex, Len(down),
                    MaxFrom(up, startIndex, Len(up), 0))

\* Mutation of updateMaxValue: the scale decays half way towards a lower
\* visible maximum on every call
updateMaxValueSmoothed(mv, up, down, w, ts) ==
    LET raw == getVisibleDataMax(up, down, w, ts)
        visibleMax == IF raw < minScale THEN minScale ELSE raw
    IN IF visibleMax > mv THEN visibleMax
       ELSE IF mv > visibleMax THEN (mv + visibleMax) \div 2
       ELSE mv

\* Mutation of updateMaxValue: no floor, the scale follows the visible
\* maximum down to any value
updateMaxValueUnfloored(mv, up, down, w, ts) ==
    LET visibleMax == getVisibleDataMax(up, down, w, ts)
    IN IF visibleMax > mv THEN visibleMax
       ELSE IF mv > visibleMax * 2 THEN visibleMax
       ELSE mv

\* updateMaxValue: floor of 1024 and hysteresis on the way down
updateMaxValue(mv, up, down, w, ts) ==
    LET raw == getVisibleDataMax(up, down, w, ts)
        visibleMax == IF raw < minScale THEN minScale ELSE raw
    IN IF visibleMax > mv THEN visibleMax
       ELSE IF mv > visibleMax * 2 /\ visibleMax > minScale THEN visibleMax
       ELSE mv

(***************************************************************************)
(* Scaling.                                                                *)
(***************************************************************************)
\* int(x) of a float64 that is NaN or +Inf is implementation-dependent in
\* Go: amd64 yields the most negative integer for both, arm64 yields 0 for
\* NaN and the largest integer for +Inf.  Only the sign and the clamping
\* matter below, so the extreme integers are represented by -HugeInt and
\* HugeInt.
HugeInt == 1000000

FloatToIntOutcomes ==
    { [nan |-> -HugeInt, inf |-> -HugeInt],
      [nan |-> 0, inf |-> HugeInt] }

\* Exponent n of a power of two v = 2^n: math.Log10(v) is n * log10(2), so
\* (logVal - logMin) / (logMax - logMin) is a ratio of exponent differences
RECURSIVE Log2(_)
Log2(v) == IF v <= 1 THEN 0 ELSE 1 + Log2(v \div 2)

\* Largest h with h * h * mv <= value * H * H
RECURSIVE SqrtHeightFrom(_, _, _, _)
SqrtHeightFrom(h, value, mv, H) ==
    IF (h + 1) * (h + 1) * mv <= value * H * H
    THEN SqrtHeightFrom(h + 1, value, mv, H) ELSE h

\* int(bc.scaleValue(value, maxValue) * float64(H)): the unclamped dot
\* height of a value on an axis of H dots.
scaleValue(value, mv, mode, H, conv) ==
    IF value = 0 THEN 0
    ELSE IF mode = ScalingLogarithmic THEN
        LET val == Max2(value, minLogValue)
            maxVal == Max2(mv, minLogValue)
            num == Log2(val) - Log2(minLogValue)
            den == Log2(maxVal) - Log2(minLogValue)
        IN IF den = 0 THEN (IF num = 0 THEN conv.nan ELSE conv.inf)
           ELSE (num * H) \div den
    ELSE IF mode = ScalingSquareRoot THEN
        IF mv = 0 THEN conv.inf ELSE SqrtHeightFrom(0, value, mv, H)
    ELSE
        IF mv = 0 THEN conv.inf ELSE (value * H) \div mv

\* The divisor of the quotient scaleValue returns is zero
scaleDivisorIsZero(mv, mode) ==
    IF mode = ScalingLogarithmic THEN Max2(mv, minLogValue) = minLogValue
    ELSE mv = 0

\* The quotient scaleValue returns is a number of the interval [0, 1]
scaleInUnitRange(value, mv, mode) ==
    \/ value = 0
    \/ /\ ~scaleDivisorIsZero(mv, mode)
       /\ IF mode = ScalingLogarithmic
          THEN Max2(value, minLogValue) <= Max2(mv, minLogValue)
          ELSE value <= mv

(***************************************************************************)
(* Gradient styling.                                                       *)
(***************************************************************************)
\* len(uploadGradient.Steps) = len(downloadGradient.Steps), and
\* len(overlapGradient.Steps)
uploadSteps == 6
overlapSteps == 8

\* getGradientStepIndex for heightPercent = n / d.  float64 computes
\* 1.0 - 0.8 as 0.19999999999999996, so that position falls into step 0
\* of a 6-step gradient (int(0.9999999999999998)).
getGradientStepIndex(n, d, stepCount) ==
    LET nc == IF n < 0 THEN 0 ELSE IF n > d THEN d ELSE n
        stepIndex == IF stepCount = 6 /\ 5 * nc = 4 * d THEN 0
                     ELSE ((stepCount - 1) * (d - nc)) \div d
    IN IF stepIndex >= stepCount THEN stepCount - 1 ELSE stepIndex

\* A rendered cell: the braille dot mask, the series whose gradient colours
\* it and the gradient step.  A blank is the plain " ".
Space == [dots |-> 0, style |-> "none", step |-> 0]

getStyledCharWithGradient(dots, n, d, isUpload) ==
    [dots |-> dots,
     style |-> IF isUpload THEN "upload" ELSE "download",
     step |-> getGradientStepIndex(n, d, uploadSteps)]

getStyledCharWithOverlapGradient(dots, n, d) ==
    [dots |-> dots, style |-> "overlap",
     step |-> getGradientStepIndex(n, d, overlapSteps)]

\* The %.2f of the cache key for heightPercent = n / d, in hundredths
\* (none of the positions used below is half way between two hundredths)
KeyPercent(n, d) == (200 * n + d) \div (2 * d)

\* cacheKey: the character and the height percentage with two decimals;
\* the series selects the cache
CacheKey(dots, n, d) == <<dots, KeyPercent(n, d)>>

EmptyCharCache == [key \in {} |-> Space]

\* What getStyledCharWithGradient returns with the given cache contents
CachedStyledChar(cache, dots, n, d, isUpload) ==
    IF CacheKey(dots, n, d) \in DOMAIN cache
    THEN cache[CacheKey(dots, n, d)]
    ELSE getStyledCharWithGradient(dots, n, d, isUpload)

\* The cache after the call: a miss stores what was returned
CacheAfterCall(cache, dots, n, d, isUpload) ==
    IF CacheKey(dots, n, d) \in DOMAIN cache THEN cache
    ELSE [key \in DOMAIN cache \cup {CacheKey(dots, n, d)} |->
            IF key = CacheKey(dots, n, d)
            THEN getStyledCharWithGradient(dots, n, d, isUpload)
            ELSE cache[key]]

\* bc.getStyledCharWithGradient(char, n / d, isUpload), caches included
StyledCharCall(dots, n, d, isUpload) ==
    LET cache == IF isUpload THEN uploadCharCache ELSE downloadCharCache
    IN /\ styled' = CachedStyledChar(cache, dots, n, d, isUpload)
       /\ IF isUpload
          THEN /\ uploadCharCache' = CacheAfterCall(cache, dots, n, d, isUpload)
               /\ UNCHANGED downloadCharCache
          ELSE /\ downloadCharCache' = CacheAfterCall(cache, dots, n, d, isUpload)
               /\ UNCHANGED uploadCharCache
       /\ styleCall' = [dots |-> dots, n |-> n, d |-> d, isUpload |-> isUpload]

\* No Cycle operation is running
NoTrail == [op |-> "none", from |-> 0, seen |-> <<>>]

\* No styling call was made yet
StyleInit ==
    /\ trail = NoTrail
    /\ uploadCharCache = EmptyCharCache
    /\ downloadCharCache = EmptyCharCache
    /\ styled = Space
    /\ styleCall = [dots |-> 0, n |-> 0, d |-> 1, isUpload |-> FALSE]

(***************************************************************************)
(* Glyph compositor.                                                       *)
(***************************************************************************)
dotPatterns == <<9, 18, 36, 192>>

DotRows == 0..(brailleDots - 1)

\* dots |= dotPatterns[dotRow] for every dot row of the set rows
RECURSIVE DotMask(_)
DotMask(rows) ==
    IF rows = {} THEN 0
    ELSE LET r == CHOOSE r \in rows : TRUE
         IN dotPatterns[r + 1] + DotMask(rows \ {r})

SetMax(S) == CHOOSE m \in S : \A o \in S : o <= m

\* Mutation of createBrailleCharForLineSplit: the download test is strict,
\* like the upload test
createBrailleCharForLineSplitStrict(line, uploadHeight, downloadHeight, halfHeight) ==
    LET lineTop == line * brailleDots
        downRows == {r \in DotRows :
                        /\ lineTop + r < halfHeight
                        /\ halfHeight - (lineTop + r) < downloadHeight}
        upRows == {r \in DotRows :
                        /\ lineTop + r >= halfHeight
                        /\ (lineTop + r) - halfHeight < uploadHeight}
        dots == DotMask(downRows \cup upRows)
    IN IF uploadHeight = 0 /\ downloadHeight = 0 THEN Space
       ELSE IF dots = 0 THEN Space
       ELSE IF upRows # {} THEN
           getStyledCharWithGradient(dots,
               (lineTop + SetMax(upRows)) - halfHeight, halfHeight - 1, TRUE)
       ELSE
           getStyledCharWithGradient(dots,
               halfHeight - (lineTop + SetMax(downRows)) - 1, halfHeight - 1, FALSE)

createBrailleCharForLineSplit(line, uploadHeight, downloadHeight, halfHeight) ==
    LET lineTop == line * brailleDots
        downRows == {r \in DotRows :
                        /\ lineTop + r < halfHeight
                        /\ halfHeight - (lineTop + r) <= downloadHeight}
        upRows == {r \in DotRows :
                        /\ lineTop + r >= halfHeight
                        /\ (lineTop + r) - halfHeight < uploadHeight}
        dots == DotMask(downRows \cup upRows)
    IN IF uploadHeight = 0 /\ downloadHeight = 0 THEN Space
       ELSE IF dots = 0 THEN Space
       ELSE IF upRows # {} THEN
           getStyledCharWithGradient(dots,
               (lineTop + SetMax(upRows)) - halfHeight, halfHeight - 1, TRUE)
       ELSE
           getStyledCharWithGradient(dots,
               halfHeight - (lineTop + SetMax(downRows)) - 1, halfHeight - 1, FALSE)

\* Mutation of createBrailleCharForOverlay: the upload colour wins
createBrailleCharForOverlayUploadFirst(line, uploadHeight, downloadHeight, fullHeight) ==
    LET lineTop == line * brailleDots
        upRows == {r \in DotRows : fullHeight - (lineTop + r) <= uploadHeight}
        downRows == {r \in DotRows : fullHeight - (lineTop + r) <= downloadHeight}
        dots == DotMask(upRows \cup downRows)
        n == (fullHeight - 1) - (lineTop + brailleDots \div 2)
        d == fullHeight - 1
    IN IF uploadHeight = 0 /\ downloadHeight = 0 THEN Space
       ELSE IF upRows = {} /\ downRows = {} THEN Space
       ELSE IF upRows # {} THEN getStyledCharWithGradient(dots, n, d, TRUE)
       ELSE getStyledCharWithGradient(dots, n, d, FALSE)

createBrailleCharForOverlay(line, uploadHeight, downloadHeight, fullHeight) ==
    LET lineTop == line * brailleDots
        upRows == {r \in DotRows : fullHeight - (lineTop + r) <= uploadHeight}
        downRows == {r \in DotRows : fullHeight - (lineTop + r) <= downloadHeight}
        dots == DotMask(upRows \cup downRows)
        n == (fullHeight - 1) - (lineTop + brailleDots \div 2)
        d == fullHeight - 1
    IN IF uploadHeight = 0 /\ downloadHeight = 0 THEN Space
       ELSE IF upRows = {} /\ downRows = {} THEN Space
       ELSE IF upRows \cap downRows # {} THEN
           getStyledCharWithOverlapGradient(dots, n, d)
       ELSE IF upRows # {} /\ downRows # {} THEN
           getStyledCharWithOverlapGradient(dots, n, d)
       ELSE IF upRows # {} THEN getStyledCharWithGradient(dots, n, d, TRUE)
       ELSE getStyledCharWithGradient(dots, n, d, FALSE)

\* uploadHeight / downloadHeight of renderColumn and renderColumnOverlay:
\* int(scale * float64(H)), clamped from above to the H dots available
clampedHeight(value, mv, mode, H, conv) ==
    Min2(scaleValue(value, mv, mode, H, conv), H)

\* Mutation of renderColumn: the axis is put at half of the dots, which is
\* inside a cell when the height is odd
renderColumnAxisAtHalfOfDots(upload, download, mv, mode, h, conv) ==
    LET halfHeight == (h * brailleDots) \div 2
        uploadHeight == clampedHeight(upload, mv, mode, halfHeight, conv)
        downloadHeight == clampedHeight(download, mv, mode, halfHeight, conv)
    IN [y \in 1..h |->
          createBrailleCharForLineSplit(y - 1, uploadHeight, downloadHeight, halfHeight)]

\* renderColumn (split axis): the cells of one column, top row first
renderColumn(upload, download, mv, mode, h, conv) ==
    LET halfHeight == (h \div 2) * brailleDots
        uploadHeight == clampedHeight(upload, mv, mode, halfHeight, conv)
        downloadHeight == clampedHeight(download, mv, mode, halfHeight, conv)
    IN [y \in 1..h |->
          createBrailleCharForLineSplit(y - 1, uploadHeight, downloadHeight, halfHeight)]

\* renderColumnOverlay: both series grow from the bottom edge
renderColumnOverlay(upload, download, mv, mode, h, conv) ==
    LET fullHeight == h * brailleDots
        uploadHeight == clampedHeight(upload, mv, mode, fullHeight, conv)
        downloadHeight == clampedHeight(download, mv, mode, fullHeight, conv)
    IN [y \in 1..h |->
          createBrailleCharForOverlay(y - 1, uploadHeight, downloadHeight, fullHeight)]

\* The column of one (upload, download) pair in the current display mode
ColumnOf(upload, download, mv, mode, h, overlay, conv) ==
    IF overlay THEN renderColumnOverlay(upload, download, mv, mode, h, conv)
    ELSE renderColumn(upload, download, mv, mode, h, conv)

(***************************************************************************)
(* Render.                                                                 *)
(***************************************************************************)
\* Mutation of ValueAt: an index before the first sample reads the first
\* sample
ValueAtClamped(s, dataIndex) ==
    IF dataIndex < Len(s) THEN s[Max2(dataIndex, 0) + 1] ELSE 0

\* bc.uploadData[dataIndex] guarded by the bounds test of the column loop
ValueAt(s, dataIndex) ==
    IF dataIndex >= 0 /\ dataIndex < Len(s) THEN s[dataIndex + 1] ELSE 0

\* Mutation of AggregatedValue: the last sample of the window
AggregatedLast(s, i, k, dataLen) == ValueAt(s, WindowEnd(i, k, dataLen) - 1)

\* The maximum of one series over window i (0 for an empty range)
AggregatedValue(s, i, k, dataLen) ==
    MaxFrom(s, WindowStart(i, k), WindowEnd(i, k, dataLen), 0)

\* The window drawn in column x of a windowed chart, -1 for none
ColumnWindow(x, dataLen, k, w) ==
    LET first == FirstVisibleWindow(dataLen, k, w)
    IN IF x < TotalWindows(dataLen, k) - first THEN first + x ELSE -1

\* renderEmptyChart: height rows of width blanks, as columns 0..w-1
renderEmptyChart(w, h) == [x \in 0..(w - 1) |-> [y \in 1..h |-> Space]]

\* The text block Render returns: row y is the y-th cell of every column
JoinLines(cols, w, h) == [y \in 1..h |-> [x \in 1..w |-> cols[x - 1][y]]]

\* The "\n" between two rows of the text
Newline == [dots |-> 0, style |-> "newline", step |-> 0]

\* bc.lines[y]: the cells the columns wrote to row y, left to right
lineOf(cols, y) == [x \in 1..Cardinality(DOMAIN cols) |-> cols[x - 1][y]]

\* Mutation of renderedText: a newline is written after every row
RECURSIVE renderedTextTrailingNewline(_, _)
renderedTextTrailingNewline(cols, h) ==
    IF h = 0 THEN <<>>
    ELSE renderedTextTrailingNewline(cols, h - 1) \o lineOf(cols, h) \o <<Newline>>

\* The string Render returns, cell by cell: the rows 1..h, a newline
\* written before every row but the first
RECURSIVE renderedText(_, _)
renderedText(cols, h) ==
    IF h = 0 THEN <<>>
    ELSE renderedText(cols, h - 1)
            \o (IF h > 1 THEN <<Newline>> ELSE <<>>) \o lineOf(cols, h)

\* Mutation of RenderColumns1Min: the data index lags one sample behind
RenderColumns1MinLagging(up, down, mv, mode, w, h, overlay, conv) ==
    LET dataLen == GetDataLength(up, down)
    IN [x \in 0..(w - 1) |->
          LET dataIndex == dataLen - (w - x) - 1
          IN ColumnOf(ValueAt(up, dataIndex), ValueAt(down, dataIndex),
                      mv, mode, h, overlay, conv)]

\* The column loop of Render at the 1-minute scale
RenderColumns1Min(up, down, mv, mode, w, h, overlay, conv) ==
    LET dataLen == GetDataLength(up, down)
    IN [x \in 0..(w - 1) |->
          LET dataIndex == dataLen - (w - x)
          IN ColumnOf(ValueAt(up, dataIndex), ValueAt(down, dataIndex),
                      mv, mode, h, overlay, conv)]

\* The column cache: rendered columns of closed windows by window index,
\* valid for the scale maximum, display mode and size they were drawn with.
EmptyColumns == [i \in {} |-> <<>>]

EmptyCache == [cols |-> EmptyColumns, maxValue |-> 0, overlay |-> FALSE,
               width |-> 0, height |-> 0]

CacheValidFor(cache, mv, overlay, w, h) ==
    /\ cache.maxValue = mv
    /\ cache.overlay = overlay
    /\ cache.width = w
    /\ cache.height = h

\* The cached columns a Render may reuse
UsableColumns(cache, mv, overlay, w, h) ==
    IF CacheValidFor(cache, mv, overlay, w, h) THEN cache.cols ELSE EmptyColumns

\* Windows that are visible and complete
VisibleCompleteWindows(dataLen, k, w) ==
    LET first == FirstVisibleWindow(dataLen, k, w)
    IN {i \in first..(Min2(TotalWindows(dataLen, k), first + w) - 1) :
            i < TotalCompleteWindows(dataLen, k)}

\* getOrRenderColumn: a complete window found in the cache is returned
\* unchanged, any other window is rendered from its aggregate.
WindowColumn(i, usable, up, down, mv, mode, k, h, overlay, conv) ==
    LET dataLen == GetDataLength(up, down)
    IN IF i < TotalCompleteWindows(dataLen, k) /\ i \in DOMAIN usable
       THEN usable[i]
       ELSE ColumnOf(AggregatedValue(up, i, k, dataLen),
                     AggregatedValue(down, i, k, dataLen),
                     mv, mode, h, overlay, conv)

\* The column loop of Render for a window size k > 1
RenderColumnsWindowed(usable, up, down, mv, mode, k, w, h, overlay, conv) ==
    LET dataLen == GetDataLength(up, down)
    IN [x \in 0..(w - 1) |->
          LET i == ColumnWindow(x, dataLen, k, w)
          IN IF i < 0 THEN ColumnOf(0, 0, mv, mode, h, overlay, conv)
             ELSE WindowColumn(i, usable, up, down, mv, mode, k, h, overlay, conv)]

\* The cache after a windowed Render: the visible closed windows are
\* stored, entries of windows scrolled off the left edge are dropped.
CacheAfterRender(usable, up, down, mv, mode, k, w, h, overlay, conv) ==
    LET dataLen == GetDataLength(up, down)
        drawn == VisibleCompleteWindows(dataLen, k, w)
        kept == {i \in DOMAIN usable : i >= FirstVisibleWindow(dataLen, k, w)}
    IN [cols |-> [i \in drawn \cup kept |->
                    IF i \in drawn
                    THEN WindowColumn(i, usable, up, down, mv, mode, k, h, overlay, conv)
                    ELSE usable[i]],
        maxValue |-> mv, overlay |-> overlay, width |-> w, height |-> h]

invalidateColumnCache == EmptyCache

(***************************************************************************)
(* Public operations.                                                      *)
(***************************************************************************)
\* The sample a run repeats; between two Resets a run has at most one other
\* sample (a spike)
Background == <<2048, 1024>>

\* NewBrailleChart(mp)
NewBrailleChart(mp) ==
    /\ uploadData = <<>>
    /\ downloadData = <<>>
    /\ maxPoints = mp
    /\ width = defaultChartWidth
    /\ height = defaultChartHeight
    /\ maxValue = minScale
    /\ currentMax = 0
    /\ overlayMode = FALSE
    /\ scalingMode = ScalingLogarithmic
    /\ timeScale = TimeScale1Min
    /\ columnCache = EmptyCache

GhostInit ==
    /\ lastOp = "NewBrailleChart"
    /\ hist = <<>>
    /\ onlyAppends = TRUE
    /\ since = "other"
    /\ screenLen = 0
    /\ screenMax = 0
    /\ staleKeys = {}
    /\ servedStale = FALSE
    /\ spiked = FALSE
    /\ others = 0
    /\ lastArg = 0
    /\ dropped = 0
    /\ cacheModes = {}

\* Ghost bookkeeping of a call that is neither AddDataPoint nor Render
GhostCall(op, arg) ==
    /\ lastOp' = op
    /\ lastArg' = arg
    /\ dropped' = Len(uploadData) - Len(uploadData')
    /\ since' = "other"
    /\ others' = others + 1
    /\ spiked' = (spiked /\ op # "Reset")
    /\ UNCHANGED <<hist, screenLen, screenMax, servedStale>>

GhostOther(op) == GhostCall(op, 0)

AddDataPoint(upload, download) ==
    LET cm0 == updateCurrentMax(currentMax, upload, download)
        t == trimDataIfNeeded(Append(uploadData, upload),
                              Append(downloadData, download), cm0, maxPoints)
    IN /\ uploadData' = t.up
       /\ downloadData' = t.down
       /\ currentMax' = t.cm
       /\ maxValue' = updateMaxValue(maxValue, t.up, t.down, width, timeScale)
       /\ UNCHANGED <<maxPoints, width, height, overlayMode, scalingMode,
                      timeScale, columnCache, platform, screen>>
       /\ lastOp' = "AddDataPoint"
       /\ hist' = Append(hist, <<upload, download>>)
       /\ since' = IF since \in {"render", "render2"} THEN "append1"
                   ELSE IF since \in {"append1", "appends"} THEN "appends"
                   ELSE "other"
       /\ spiked' = (spiked \/ <<upload, download>> # Background)
       /\ lastArg' = 0
       /\ dropped' = Len(uploadData) + 1 - Len(t.up)
       /\ UNCHANGED <<onlyAppends, screenLen, screenMax, staleKeys, servedStale,
                      others, cacheModes>>

\* Mutation of SetMaxPoints: a smaller bound keeps the oldest samples
SetMaxPointsKeepOldest(n) ==
    /\ IF n <= 0
       THEN UNCHANGED <<uploadData, downloadData, maxPoints, currentMax>>
       ELSE /\ maxPoints' = n
            /\ IF n < maxPoints
               THEN LET up1 == IF Len(uploadData) > n
                               THEN DropNewest(uploadData, Len(uploadData) - n)
                               ELSE uploadData
                        down1 == IF Len(downloadData) > n
                                 THEN DropNewest(downloadData, Len(downloadData) - n)
                                 ELSE downloadData
                    IN /\ uploadData' = up1
                       /\ downloadData' = down1
                       /\ currentMax' = recalculateMax(up1, down1)
               ELSE UNCHANGED <<uploadData, downloadData, currentMax>>
    /\ UNCHANGED <<width, height, maxValue, overlayMode, scalingMode, timeScale,
                   columnCache, platform, screen>>
    /\ onlyAppends' = FALSE
    /\ UNCHANGED <<staleKeys, cacheModes>>
    /\ GhostCall("SetMaxPoints", n)

SetMaxPoints(n) ==
    /\ IF n <= 0
       THEN UNCHANGED <<uploadData, downloadData, maxPoints, currentMax>>
       ELSE /\ maxPoints' = n
            /\ IF n < maxPoints
               THEN LET up1 == IF Len(uploadData) > n
                               THEN DropFirst(uploadData, Len(uploadData) - n)
                               ELSE uploadData
                        down1 == IF Len(downloadData) > n
                                 THEN DropFirst(downloadData, Len(downloadData) - n)
                                 ELSE downloadData
                    IN /\ uploadData' = up1
                       /\ downloadData' = down1
                       /\ currentMax' = recalculateMax(up1, down1)
               ELSE UNCHANGED <<uploadData, downloadData, currentMax>>
    /\ UNCHANGED <<width, height, maxValue, overlayMode, scalingMode, timeScale,
                   columnCache, platform, screen>>
    /\ onlyAppends' = FALSE
    /\ UNCHANGED <<staleKeys, cacheModes>>
    /\ GhostCall("SetMaxPoints", n)

\* Mutation of Reset: the running maximum is kept
ResetKeepsCurrentMax ==
    /\ uploadData' = <<>>
    /\ downloadData' = <<>>
    /\ maxValue' = minScale
    /\ UNCHANGED <<maxPoints, width, height, overlayMode, scalingMode, timeScale,
                   columnCache, platform, screen, currentMax>>
    /\ onlyAppends' = FALSE
    /\ staleKeys' = DOMAIN columnCache.cols
    /\ UNCHANGED cacheModes
    /\ GhostOther("Reset")

Reset ==
    /\ uploadData' = <<>>
    /\ downloadData' = <<>>
    /\ maxValue' = minScale
    /\ currentMax' = 0
    /\ UNCHANGED <<maxPoints, width, height, overlayMode, scalingMode, timeScale,
                   columnCache, platform, screen>>
    /\ onlyAppends' = FALSE
    /\ staleKeys' = DOMAIN columnCache.cols
    /\ UNCHANGED cacheModes
    /\ GhostOther("Reset")

\* Mutation of SetWidth: the argument is stored as it is
SetWidthUnclamped(w) ==
    /\ width' = w
    /\ UNCHANGED <<uploadData, downloadData, maxPoints, height, maxValue, currentMax,
                   overlayMode, scalingMode, timeScale, columnCache, platform, screen>>
    /\ UNCHANGED <<onlyAppends, staleKeys, cacheModes>>
    /\ GhostCall("SetWidth", w)

SetWidth(w) ==
    /\ width' = IF w < MinChartWidth THEN MinChartWidth ELSE w
    /\ UNCHANGED <<uploadData, downloadData, maxPoints, height, maxValue, currentMax,
                   overlayMode, scalingMode, timeScale, columnCache, platform, screen>>
    /\ UNCHANGED <<onlyAppends, staleKeys, cacheModes>>
    /\ GhostCall("SetWidth", w)

SetHeight(h) ==
    /\ height' = IF h < MinChartHeight THEN MinChartHeight ELSE h
    /\ UNCHANGED <<uploadData, downloadData, maxPoints, width, maxValue, currentMax,
                   overlayMode, scalingMode, timeScale, columnCache, platform, screen>>
    /\ UNCHANGED <<onlyAppends, staleKeys, cacheModes>>
    /\ GhostCall("SetHeight", h)

\* Mutation of SetOverlayMode: the argument is ignored, overlay is turned on
SetOverlayModeAlwaysOn(enabled) ==
    /\ overlayMode' = TRUE
    /\ UNCHANGED <<uploadData, downloadData, maxPoints, width, height, maxValue,
                   currentMax, scalingMode, timeScale, columnCache, platform,
                   screen>>
    /\ staleKeys' = IF ~overlayMode THEN DOMAIN columnCache.cols ELSE staleKeys
    /\ UNCHANGED <<onlyAppends, cacheModes>>
    /\ GhostOther("SetOverlayMode")

SetOverlayMode(enabled) ==
    /\ overlayMode' = enabled
    /\ UNCHANGED <<uploadData, downloadData, maxPoints, width, height, maxValue,
                   currentMax, scalingMode, timeScale, columnCache, platform,
                   screen>>
    /\ staleKeys' = IF enabled # overlayMode THEN DOMAIN columnCache.cols ELSE staleKeys
    /\ UNCHANGED <<onlyAppends, cacheModes>>
    /\ GhostOther("SetOverlayMode")

ToggleOverlayMode ==
    /\ overlayMode' = ~overlayMode
    /\ UNCHANGED <<uploadData, downloadData, maxPoints, width, height, maxValue,
                   currentMax, scalingMode, timeScale, columnCache, platform,
                   screen>>
    /\ staleKeys' = DOMAIN columnCache.cols
    /\ UNCHANGED <<onlyAppends, cacheModes>>
    /\ GhostOther("ToggleOverlayMode")

\* Mutation of NextScalingMode: the cycle runs the other way round
NextScalingModeBackwards(mode) ==
    CASE mode = ScalingLinear -> ScalingSquareRoot
      [] mode = ScalingLogarithmic -> ScalingLinear
      [] mode = ScalingSquareRoot -> ScalingLogarithmic
      [] OTHER -> ScalingLinear

\* The mode after CycleScalingMode
NextScalingMode(mode) ==
    CASE mode = ScalingLinear -> ScalingLogarithmic
      [] mode = ScalingLogarithmic -> ScalingSquareRoot
      [] mode = ScalingSquareRoot -> ScalingLinear
      [] OTHER -> ScalingLinear

\* Mutation of NextTimeScale: the 15-minute scale is skipped
NextTimeScaleSkipping(ts) ==
    CASE ts = TimeScale1Min -> TimeScale3Min
      [] ts = TimeScale3Min -> TimeScale5Min
      [] ts = TimeScale5Min -> TimeScale10Min
      [] ts = TimeScale10Min -> TimeScale30Min
      [] ts = TimeScale15Min -> TimeScale30Min
      [] ts = TimeScale30Min -> TimeScale60Min
      [] ts = TimeScale60Min -> TimeScale1Min
      [] OTHER -> TimeScale1Min

\* The time scale after CycleTimeScale
NextTimeScale(ts) ==
    CASE ts = TimeScale1Min -> TimeScale3Min
      [] ts = TimeScale3Min -> TimeScale5Min
      [] ts = TimeScale5Min -> TimeScale10Min
      [] ts = TimeScale10Min -> TimeScale15Min
      [] ts = TimeScale15Min -> TimeScale30Min
      [] ts = TimeScale30Min -> TimeScale60Min
      [] ts = TimeScale60Min -> TimeScale1Min
      [] OTHER -> TimeScale1Min

\* Mutation of CacheAfterChange: the cache is never invalidated
CacheKeptOnChange(changed) ==
    /\ columnCache' = columnCache
    /\ staleKeys' = staleKeys
    /\ cacheModes' = cacheModes

\* The cache and its ghosts after a call that invalidates it when changed
CacheAfterChange(changed) ==
    /\ columnCache' = IF changed THEN invalidateColumnCache ELSE columnCache
    /\ staleKeys' = IF changed THEN {} ELSE staleKeys
    /\ cacheModes' = IF changed THEN {} ELSE cacheModes

SetScalingMode(mode) ==
    /\ scalingMode' = mode
    /\ CacheAfterChange(scalingMode # mode)
    /\ UNCHANGED <<uploadData, downloadData, maxPoints, width, height, maxValue,
                   currentMax, overlayMode, timeScale, platform, screen, onlyAppends>>
    /\ GhostOther("SetScalingMode")

CycleScalingMode ==
    /\ scalingMode' = NextScalingMode(scalingMode)
    /\ CacheAfterChange(scalingMode # NextScalingMode(scalingMode))
    /\ UNCHANGED <<uploadData, downloadData, maxPoints, width, height, maxValue,
                   currentMax, overlayMode, timeScale, platform, screen, onlyAppends>>
    /\ GhostOther("CycleScalingMode")

CycleTimeScale ==
    /\ timeScale' = NextTimeScale(timeScale)
    /\ CacheAfterChange(timeScale # NextTimeScale(timeScale))
    /\ UNCHANGED <<uploadData, downloadData, maxPoints, width, height, maxValue,
                   currentMax, overlayMode, scalingMode, platform, screen, onlyAppends>>
    /\ GhostOther("CycleTimeScale")

SetTimeScale(ts) ==
    /\ timeScale' = ts
    /\ CacheAfterChange(timeScale # ts)
    /\ UNCHANGED <<uploadData, downloadData, maxPoints, width, height, maxValue,
                   currentMax, overlayMode, scalingMode, platform, screen, onlyAppends>>
    /\ GhostOther("SetTimeScale")

\* Mutation of RenderFrame: Render brings currentMax in line with the scale
RenderFrameSyncingMax ==
    /\ currentMax' = maxValue'
    /\ UNCHANGED <<uploadData, downloadData, maxPoints, width, height,
                   overlayMode, scalingMode, timeScale, platform>>

\* The fields of the chart that Render only reads
RenderFrame ==
    UNCHANGED <<uploadData, downloadData, maxPoints, width, height, currentMax,
                overlayMode, scalingMode, timeScale, platform>>

Render ==
    LET conv == platform IN
      /\ IF Len(uploadData) = 0 /\ Len(downloadData) = 0
         THEN /\ screen' = renderEmptyChart(width, height)
              /\ UNCHANGED <<maxValue, columnCache, staleKeys, cacheModes>>
              /\ servedStale' = FALSE
         ELSE LET mv == updateMaxValue(maxValue, uploadData, downloadData,
                                       width, timeScale)
                  k == WindowSize
                  usable == UsableColumns(columnCache, mv, overlayMode, width, height)
                  hits == VisibleCompleteWindows(DataLen, k, width) \cap DOMAIN usable
              IN /\ maxValue' = mv
                 /\ IF timeScale = TimeScale1Min
                    THEN /\ screen' = RenderColumns1Min(uploadData, downloadData, mv,
                                    scalingMode, width, height, overlayMode, conv)
                         /\ UNCHANGED <<columnCache, staleKeys, cacheModes>>
                         /\ servedStale' = FALSE
                    ELSE /\ screen' = RenderColumnsWindowed(usable, uploadData,
                                    downloadData, mv, scalingMode, k, width, height,
                                    overlayMode, conv)
                         /\ columnCache' = CacheAfterRender(usable, uploadData,
                                downloadData, mv, scalingMode, k, width, height,
                                overlayMode, conv)
                         /\ servedStale' = (hits \cap staleKeys # {})
                         /\ staleKeys' = staleKeys \cap DOMAIN usable
                                            \cap DOMAIN columnCache'.cols
                         /\ cacheModes' =
                              (IF DOMAIN usable \cap DOMAIN columnCache'.cols # {}
                               THEN cacheModes ELSE {})
                              \cup (IF DOMAIN columnCache'.cols \ DOMAIN usable # {}
                                    THEN {<<scalingMode, timeScale>>} ELSE {})
      /\ RenderFrame
      /\ lastOp' = "Render"
      /\ since' = IF lastOp = "Render" THEN "render2" ELSE "render"
      /\ screenLen' = DataLen
      /\ screenMax' = maxValue'
      /\ lastArg' = 0
      /\ dropped' = 0
      /\ UNCHANGED <<hist, onlyAppends, spiked, others>>

(***************************************************************************)
(* Compact rendering.                                                      *)
(***************************************************************************)
\* chartWidth of the compact chart is at least this
compactMinWidth == 10

\* A compact cell has one flat colour and no gradient step
CompactCell(dots, style) == [dots |-> dots, style |-> style, step |-> 0]

\* bgStyle.Render of the empty braille character
CompactBlank == CompactCell(0, "background")

\* getBrailleChar: dotsInRange dot rows filled from the bottom row upward
getBrailleChar(h, startDot, endDot) ==
    IF h <= startDot THEN 0
    ELSE LET dotsInRange == Min2(Min2(h - startDot, endDot - startDot), brailleDots)
         IN DotMask((brailleDots - dotsInRange)..(brailleDots - 1))

\* getBrailleCharInverted: dotsInRange dot rows filled from the top row down
getBrailleCharInverted(h, startDot, endDot) ==
    IF h <= startDot THEN 0
    ELSE LET dotsInRange == Min2(Min2(h - startDot, endDot - startDot), brailleDots)
         IN DotMask(0..(dotsInRange - 1))

\* renderCompactColumnOverlayMultiLine: one cell per line, top line first
renderCompactColumnOverlayMultiLine(uploadHeight, downloadHeight, compactHeight) ==
    [y \in 1..compactHeight |->
        LET dotStart == (compactHeight - y) * brailleDots
            uploadInLine == uploadHeight > dotStart
            downloadInLine == downloadHeight > dotStart
            uploadDotsInLine ==
                IF uploadInLine THEN Min2(uploadHeight - dotStart, brailleDots) ELSE 0
            downloadDotsInLine ==
                IF downloadInLine THEN Min2(downloadHeight - dotStart, brailleDots) ELSE 0
            dotsToFill == Max2(uploadDotsInLine, downloadDotsInLine)
        IN IF ~uploadInLine /\ ~downloadInLine THEN CompactBlank
           ELSE CompactCell(getBrailleChar(dotsToFill, 0, brailleDots),
                    IF uploadInLine /\ downloadInLine THEN "overlap"
                    ELSE IF uploadInLine THEN "upload" ELSE "download")]

\* renderCompactColumnSplitMultiLine: the download half above the upload
\* half; only the lines 0..2*halfLines-1 are written
renderCompactColumnSplitMultiLine(uploadHeight, downloadHeight, halfLines) ==
    [y \in 1..(halfLines * 2) |->
        IF y <= halfLines
        THEN LET dotStart == (halfLines - y) * brailleDots
             IN IF downloadHeight > dotStart
                THEN CompactCell(getBrailleChar(
                        Min2(downloadHeight - dotStart, brailleDots), 0, brailleDots),
                        "download")
                ELSE CompactBlank
        ELSE LET dotStart == (y - 1 - halfLines) * brailleDots
             IN IF uploadHeight > dotStart
                THEN CompactCell(getBrailleCharInverted(
                        Min2(uploadHeight - dotStart, brailleDots), 0, brailleDots),
                        "upload")
                ELSE CompactBlank]

\* The compact column of one (upload, download) pair
CompactColumnOf(uploadVal, downloadVal, mv, mode, compactHeight, overlay, conv) ==
    IF overlay
    THEN LET maxHeight == compactHeight * brailleDots
         IN renderCompactColumnOverlayMultiLine(
                clampedHeight(uploadVal, mv, mode, maxHeight, conv),
                clampedHeight(downloadVal, mv, mode, maxHeight, conv), compactHeight)
    ELSE LET halfLines == compactHeight \div 2
             maxHeightPerHalf == halfLines * brailleDots
         IN renderCompactColumnSplitMultiLine(
                clampedHeight(uploadVal, mv, mode, maxHeightPerHalf, conv),
                clampedHeight(downloadVal, mv, mode, maxHeightPerHalf, conv), halfLines)

\* renderEmptyCompact: compactHeight lines of chartWidth blanks
renderEmptyCompact(terminalWidth, compactHeight) ==
    [x \in 0..(Max2(terminalWidth, compactMinWidth) - 1) |->
        [y \in 1..compactHeight |-> CompactBlank]]

\* The column loop of RenderCompactWithSize
CompactColumns(up, down, mv, mode, chartWidth, compactHeight, overlay, conv) ==
    LET dataLen == GetDataLength(up, down)
    IN [x \in 0..(chartWidth - 1) |->
          LET dataIndex == dataLen - (chartWidth - x)
          IN CompactColumnOf(ValueAt(up, dataIndex), ValueAt(down, dataIndex),
                             mv, mode, compactHeight, overlay, conv)]

\* RenderCompactWithSize; screen holds the columns of the returned text
RenderCompactWithSize(terminalWidth, compactHeight) ==
    LET conv == platform IN
      /\ IF Len(uploadData) = 0 /\ Len(downloadData) = 0
         THEN /\ screen' = renderEmptyCompact(terminalWidth, compactHeight)
              /\ UNCHANGED maxValue
         ELSE LET mv == updateMaxValue(maxValue, uploadData, downloadData,
                                       width, timeScale)
              IN /\ maxValue' = mv
                 /\ screen' = CompactColumns(uploadData, downloadData, mv,
                                  scalingMode, Max2(terminalWidth, compactMinWidth),
                                  compactHeight, overlayMode, conv)
      /\ UNCHANGED <<uploadData, downloadData, maxPoints, width, height, currentMax,
                     overlayMode, scalingMode, timeScale, columnCache, platform>>
      /\ lastOp' = "RenderCompactWithSize"
      /\ lastArg' = <<terminalWidth, compactHeight>>
      /\ since' = "other"
      /\ screenLen' = DataLen
      /\ screenMax' = maxValue'
      /\ dropped' = 0
      /\ UNCHANGED <<hist, onlyAppends, spiked, others, staleKeys, servedStale,
                     cacheModes>>

(***************************************************************************)
(* Statistics and the full-screen program (cmd/peaks, internal/ui).        *)
(* StartTime of the statistics and the status bar text are not modelled.   *)
(***************************************************************************)
\* The commands Init and Update return
tickCmd == "tickCmd"
nilCmd == "nil"
QuitCmd == "tea.Quit"

\* model.Init
Init_cmd == tickCmd

\* Mutation of TickReturns: no new tick is scheduled while paused
TickReturnsUnlessPaused(paused) == IF paused THEN nilCmd ELSE tickCmd

\* The command Update returns for a tickMsg: cmd = tickCmd() follows the
\* if !m.paused block
TickReturns(paused) == tickCmd

\* NewStats
NewStats == [TotalUpload |-> 0, TotalDownload |-> 0,
             PeakUpload |-> 0, PeakDownload |-> 0]

\* Mutation of StatsUpdate: the peaks follow the latest rates
StatsUpdateLatestPeak(s, upload, download) ==
    [TotalUpload |-> s.TotalUpload + upload \div 2,
     TotalDownload |-> s.TotalDownload + download \div 2,
     PeakUpload |-> upload,
     PeakDownload |-> download]

\* Stats.Update: uint64(float64(rate) * 0.5) bytes are added to the totals
\* (updateInterval is 500 ms), the peaks are raised to the rates
StatsUpdate(s, upload, download) ==
    [TotalUpload |-> s.TotalUpload + upload \div 2,
     TotalDownload |-> s.TotalDownload + download \div 2,
     PeakUpload |-> IF upload > s.PeakUpload THEN upload ELSE s.PeakUpload,
     PeakDownload |-> IF download > s.PeakDownload THEN download ELSE s.PeakDownload]

\* Mutation of StatsReset: the peaks survive
StatsResetKeepsPeaks(s) == [s EXCEPT !.TotalUpload = 0, !.TotalDownload = 0]

\* Stats.Reset
StatsReset(s) == [TotalUpload |-> 0, TotalDownload |-> 0,
                  PeakUpload |-> 0, PeakDownload |-> 0]

\* maxDataPoints of initialModel and of the WindowSizeMsg handler
maxDataPoints == 60 * 60 * 2

\* The model fields of initialModel
initialModel ==
    [width |-> 0, height |-> 0, ready |-> FALSE, quitting |-> FALSE,
     paused |-> FALSE, currentUpload |-> 0, currentDownload |-> 0,
     showStatusbar |-> TRUE, displayMode |-> "split"]

NoMsg == [type |-> "none"]

\* A chart used on its own: no message is ever handled
ChartOnly ==
    /\ model = initialModel
    /\ stats = NewStats
    /\ updates = <<>>
    /\ msg = NoMsg
    /\ msgs = 0
    /\ pauses = 0
    /\ skipped = 0
    /\ ticking = (Init_cmd = tickCmd)
    /\ StyleInit

\* Update returned command for message: a tickMsg has used up the tick
\* command that sent it and the loop goes on iff a new one is returned;
\* the rest is ghost bookkeeping of the handled message
Returned(message, command) ==
    /\ msg' = message
    /\ msgs' = msgs + 1
    /\ pauses' = pauses + (IF message = [type |-> "key", key |-> "Pause"] THEN 1 ELSE 0)
    /\ skipped' = skipped + (IF message.type = "tick" /\ model.paused THEN 1 ELSE 0)
    /\ ticking' = IF message.type = "tick" THEN command = tickCmd ELSE ticking
    /\ UNCHANGED <<styleVars, trail>>

\* Update returned the nil command (var cmd tea.Cmd, never assigned)
Handled(message) == Returned(message, nilCmd)

\* A handler that calls nothing on the chart
ChartUntouched == UNCHANGED <<chartVars, screen, ghostVars>>

\* chartHeight of the WindowSizeMsg and Stats-key handlers
chartHeightFor(h, showStatusbar) ==
    Max2(h - 1 - (IF showStatusbar THEN 1 ELSE 0), MinChartHeight)

\* Update(tea.WindowSizeMsg): SetMaxPoints(maxDataPoints), SetWidth,
\* SetHeight
WindowSizeMsg(w, h) ==
    LET n == maxDataPoints
        trim == n < maxPoints
        up1 == IF trim /\ Len(uploadData) > n
               THEN DropFirst(uploadData, Len(uploadData) - n) ELSE uploadData
        down1 == IF trim /\ Len(downloadData) > n
                 THEN DropFirst(downloadData, Len(downloadData) - n) ELSE downloadData
    IN /\ model' = [model EXCEPT !.width = w, !.height = h, !.ready = TRUE]
       /\ maxPoints' = n
       /\ uploadData' = up1
       /\ downloadData' = down1
       /\ currentMax' = IF trim THEN recalculateMax(up1, down1) ELSE currentMax
       /\ width' = IF w < MinChartWidth THEN MinChartWidth ELSE w
       /\ height' = chartHeightFor(h, model.showStatusbar)
       /\ UNCHANGED <<maxValue, overlayMode, scalingMode, timeScale, columnCache,
                      platform, screen>>
       /\ onlyAppends' = FALSE
       /\ UNCHANGED <<staleKeys, cacheModes>>
       /\ GhostCall("SetHeight", chartHeightFor(h, model.showStatusbar))
       /\ UNCHANGED <<stats, updates>>
       /\ Handled([type |-> "WindowSizeMsg"])

\* Update(tea.KeyMsg) for the Quit binding
KeyQuit ==
    /\ model' = [model EXCEPT !.quitting = TRUE]
    /\ ChartUntouched
    /\ UNCHANGED <<stats, updates>>
    /\ Returned([type |-> "key", key |-> "Quit"], QuitCmd)

\* Update(tea.KeyMsg) for the Pause binding
KeyPause ==
    /\ model' = [model EXCEPT !.paused = ~model.paused]
    /\ ChartUntouched
    /\ UNCHANGED <<stats, updates>>
    /\ Handled([type |-> "key", key |-> "Pause"])

\* Update(tea.KeyMsg) for the Reset binding
KeyReset ==
    /\ Reset
    /\ stats' = StatsReset(stats)
    /\ updates' = <<>>
    /\ UNCHANGED model
    /\ Handled([type |-> "key", key |-> "Reset"])

\* Update(tea.KeyMsg) for the Stats binding
KeyStats ==
    /\ model' = [model EXCEPT !.showStatusbar = ~model.showStatusbar]
    /\ SetHeight(chartHeightFor(model.height, ~model.showStatusbar))
    /\ UNCHANGED <<stats, updates>>
    /\ Handled([type |-> "key", key |-> "Stats"])

\* Update(tea.KeyMsg) for the DisplayMode binding
KeyDisplayMode ==
    /\ IF model.displayMode = "split"
       THEN /\ model' = [model EXCEPT !.displayMode = "overlay"]
            /\ SetOverlayMode(TRUE)
       ELSE /\ model' = [model EXCEPT !.displayMode = "split"]
            /\ SetOverlayMode(FALSE)
    /\ UNCHANGED <<stats, updates>>
    /\ Handled([type |-> "key", key |-> "DisplayMode"])

\* Update(tea.KeyMsg) for the ScalingMode binding
KeyScalingMode ==
    /\ CycleScalingMode
    /\ UNCHANGED <<model, stats, updates>>
    /\ Handled([type |-> "key", key |-> "ScalingMode"])

\* Update(tea.KeyMsg) for the TimeScale binding
KeyTimeScale ==
    /\ CycleTimeScale
    /\ UNCHANGED <<model, stats, updates>>
    /\ Handled([type |-> "key", key |-> "TimeScale"])

\* Mutation of Sampling: a paused program samples too
SamplingWhilePaused(paused) == TRUE

\* if !m.paused
Sampling(paused) == ~paused

\* Update(tickMsg): ok is err == nil of GetCurrentRates, upload and
\* download are the rates it returned
Tick(ok, upload, download) ==
    /\ IF Sampling(model.paused) /\ ok
       THEN /\ model' = [model EXCEPT !.currentUpload = upload,
                                      !.currentDownload = download]
            /\ AddDataPoint(upload, download)
            /\ stats' = StatsUpdate(stats, upload, download)
            /\ updates' = Append(updates, <<upload, download>>)
       ELSE /\ ChartUntouched
            /\ UNCHANGED <<model, stats, updates>>
    /\ Returned([type |-> "tick", ok |-> ok, upload |-> upload,
                 download |-> download], TickReturns(model.paused))

\* View: the chart is rendered once the size is known
View ==
    /\ model.ready /\ ~model.quitting
    /\ Render
    /\ UNCHANGED <<model, stats, updates, msgs, pauses, skipped, styleVars, trail,
                   ticking>>
    /\ msg' = [type |-> "view"]

(***************************************************************************)
(* SpecBuffer: the sample buffer under arbitrary samples and capacities.   *)
(* Nothing is rendered here, so the float conversion of the build is never *)
(* read and one platform stands for all.                                   *)
(***************************************************************************)
AnyPlatform == CHOOSE p \in FloatToIntOutcomes : TRUE

BufSamples == {<<0, 0>>, <<2048, 1024>>, <<1024, 4096>>, <<4096, 4096>>}

InitBuffer ==
    /\ \E mp \in 0..MaxInitPoints : NewBrailleChart(mp)
    /\ platform = AnyPlatform
    /\ screen = <<>>
    /\ GhostInit
    /\ ChartOnly

BufAddDataPoint ==
    /\ Len(hist) < MaxAppends
    /\ \E s \in BufSamples : AddDataPoint(s[1], s[2])
    /\ UNCHANGED appVars

BufSetMaxPoints ==
    /\ others < MaxBufOthers
    /\ \E n \in (-1)..MaxInitPoints : SetMaxPoints(n)
    /\ UNCHANGED appVars

BufReset ==
    /\ others < MaxBufOthers
    /\ Reset
    /\ UNCHANGED appVars

NextBuffer == BufAddDataPoint \/ BufSetMaxPoints \/ BufReset

SpecBuffer == InitBuffer /\ [][NextBuffer]_vars

(***************************************************************************)
(* SpecScroll: a long run of samples on a 20 x 8 chart.  The chart is the  *)
(* one left by NewBrailleChart(defaultDataPoints), SetWidth(20),           *)
(* SetHeight(8), SetTimeScale(ts), SetOverlayMode(ov).                     *)
(***************************************************************************)
defaultDataPoints == 200

SpikeSamples == {<<8192, 512>>, <<1024, 4096>>}

ScrollTimeScales == {TimeScale1Min, TimeScale3Min}

ChartAfterSetup(mp, ts, ov) ==
    /\ uploadData = <<>>
    /\ downloadData = <<>>
    /\ maxPoints = mp
    /\ width = MinChartWidth
    /\ height = MinChartHeight
    /\ maxValue = minScale
    /\ currentMax = 0
    /\ overlayMode = ov
    /\ scalingMode = ScalingLogarithmic
    /\ timeScale = ts
    /\ columnCache = EmptyCache

InitScroll ==
    /\ \E ts \in ScrollTimeScales, ov \in BOOLEAN :
          ChartAfterSetup(defaultDataPoints, ts, ov)
    /\ platform \in FloatToIntOutcomes
    /\ screen = <<>>
    /\ GhostInit
    /\ ChartOnly

ScrollAddDataPoint ==
    /\ lastOp # "AddDataPoint"
    /\ Len(hist) < MaxScroll
    /\ TotalWindows(DataLen, WindowSize) < width + MaxScrolled
    /\ \E s \in {Background} \cup SpikeSamples :
          /\ s = Background \/ ~spiked
          /\ AddDataPoint(s[1], s[2])
    /\ UNCHANGED appVars

ScrollRender == lastOp = "AddDataPoint" /\ Render
    /\ UNCHANGED appVars

NextScroll == ScrollAddDataPoint \/ ScrollRender

SpecScroll == InitScroll /\ [][NextScroll]_vars

(***************************************************************************)
(* Spec: every public operation on a 20 x 8 chart with a short history.    *)
(* The chart is the one left by NewBrailleChart(SmallPoints),              *)
(* SetWidth(20), SetHeight(8), SetTimeScale(TimeScale3Min).  As in the     *)
(* program (Update, then View) the host renders after every call; it may   *)
(* render again at any time.                                               *)
(***************************************************************************)
Spikes == {<<8192, 512>>, <<1024, 2048>>}

Init ==
    /\ ChartAfterSetup(SmallPoints, TimeScale3Min, FALSE)
    /\ platform \in FloatToIntOutcomes
    /\ screen = <<>>
    /\ GhostInit
    /\ ChartOnly

\* The previous call has been rendered
Rendered == lastOp \in {"Render", "NewBrailleChart"}

DoAddDataPoint ==
    /\ Rendered
    /\ Len(hist) < MaxSteps
    /\ \E s \in {Background} \cup Spikes :
          /\ s = Background \/ ~spiked
          /\ AddDataPoint(s[1], s[2])
    /\ UNCHANGED appVars

DoRender == Render
    /\ UNCHANGED appVars

DoReset == Rendered /\ others < MaxOthers /\ Reset
    /\ UNCHANGED appVars

DoSetMaxPoints ==
    /\ Rendered /\ others < MaxOthers
    /\ \E n \in {0, SmallPoints \div 2, defaultDataPoints} : SetMaxPoints(n)
    /\ UNCHANGED appVars

DoSetWidth ==
    /\ Rendered /\ others < MaxOthers
    /\ \E w \in {0, MinChartWidth + 1} : SetWidth(w)
    /\ UNCHANGED appVars

DoSetHeight ==
    /\ Rendered /\ others < MaxOthers
    /\ \E h \in {0, MinChartHeight + 2} : SetHeight(h)
    /\ UNCHANGED appVars

DoSetOverlayMode ==
    /\ Rendered /\ others < MaxOthers
    /\ \E b \in BOOLEAN : SetOverlayMode(b)
    /\ UNCHANGED appVars

DoToggleOverlayMode == Rendered /\ others < MaxOthers /\ ToggleOverlayMode
    /\ UNCHANGED appVars

DoSetScalingMode ==
    /\ Rendered /\ others < MaxOthers
    /\ \E m \in ScalingModes : SetScalingMode(m)
    /\ UNCHANGED appVars

DoCycleScalingMode == Rendered /\ others < MaxOthers /\ CycleScalingMode
    /\ UNCHANGED appVars

DoCycleTimeScale == Rendered /\ others < MaxOthers /\ CycleTimeScale
    /\ UNCHANGED appVars

DoSetTimeScale ==
    /\ Rendered /\ others < MaxOthers
    /\ \E ts \in {TimeScale1Min, TimeScale3Min, TimeScale60Min} : SetTimeScale(ts)
    /\ UNCHANGED appVars

Next ==
    \/ DoAddDataPoint
    \/ DoRender
    \/ DoReset
    \/ DoSetMaxPoints
    \/ DoSetWidth
    \/ DoSetHeight
    \/ DoSetOverlayMode
    \/ DoToggleOverlayMode
    \/ DoSetScalingMode
    \/ DoCycleScalingMode
    \/ DoCycleTimeScale
    \/ DoSetTimeScale

Spec == Init /\ [][Next]_vars

(***************************************************************************)
(* SpecSize: resizing a freshly constructed chart with arbitrary integer   *)
(* arguments, below and above the minimum size.                            *)
(***************************************************************************)
InitSize ==
    /\ NewBrailleChart(defaultDataPoints)
    /\ platform = AnyPlatform
    /\ screen = <<>>
    /\ GhostInit
    /\ ChartOnly

SizeSetWidth ==
    /\ others < MaxSizeCalls
    /\ \E w \in (-MaxSizeArg)..(MinChartWidth + MaxSizeArg) : SetWidth(w)
    /\ UNCHANGED appVars

SizeSetHeight ==
    /\ others < MaxSizeCalls
    /\ \E h \in (-MaxSizeArg)..(MinChartHeight + MaxSizeArg) : SetHeight(h)
    /\ UNCHANGED appVars

NextSize == SizeSetWidth \/ SizeSetHeight

SpecSize == InitSize /\ [][NextSize]_vars

(***************************************************************************)
(* SpecScale: samples below, at and above the 1 KB floor in every scaling  *)
(* mode, on a 20 x 8 chart of capacity ScalePoints in split or overlay     *)
(* mode.  The host renders after every call.                               *)
(***************************************************************************)
ScaleSamples == {<<512, 0>>, <<1024, 1024>>, <<2048, 1024>>, <<4096, 4096>>}

InitScale ==
    /\ \E ov \in BOOLEAN : ChartAfterSetup(ScalePoints, TimeScale1Min, ov)
    /\ platform \in FloatToIntOutcomes
    /\ screen = <<>>
    /\ GhostInit
    /\ ChartOnly

ScaleAddDataPoint ==
    /\ Rendered
    /\ Len(hist) < MaxScaleSteps
    /\ \E s \in ScaleSamples : AddDataPoint(s[1], s[2])
    /\ UNCHANGED appVars

ScaleRender == lastOp # "Render" /\ Render
    /\ UNCHANGED appVars

ScaleReset == Rendered /\ others < MaxScaleOthers /\ Reset
    /\ UNCHANGED appVars

ScaleSetMaxPoints ==
    /\ Rendered /\ others < MaxScaleOthers
    /\ \E n \in {0, 1} : SetMaxPoints(n)
    /\ UNCHANGED appVars

ScaleSetWidth ==
    /\ Rendered /\ others < MaxScaleOthers
    /\ \E w \in {0, MinChartWidth + 1} : SetWidth(w)
    /\ UNCHANGED appVars

ScaleCycleTimeScale == Rendered /\ others < MaxScaleOthers /\ CycleTimeScale
    /\ UNCHANGED appVars

ScaleSetScalingMode ==
    /\ Rendered /\ others < MaxScaleOthers
    /\ \E m \in ScalingModes : SetScalingMode(m)
    /\ UNCHANGED appVars

NextScale ==
    \/ ScaleAddDataPoint
    \/ ScaleRender
    \/ ScaleReset
    \/ ScaleSetMaxPoints
    \/ ScaleSetWidth
    \/ ScaleCycleTimeScale
    \/ ScaleSetScalingMode

SpecScale == InitScale /\ [][NextScale]_vars

(***************************************************************************)
(* SpecGlyph: one column of every pair of dot heights on a split-axis      *)
(* chart of even and odd height.  The chart is in linear mode; a first     *)
(* sample of 16 KB fixes the scale, so that a second sample of u and d KB  *)
(* is drawn u / 16 and d / 16 of the half height high.                     *)
(***************************************************************************)
GlyphPeak == <<16384, 16384>>

GlyphLevels == 0..16

InitGlyph ==
    /\ uploadData = <<>>
    /\ downloadData = <<>>
    /\ maxPoints = defaultDataPoints
    /\ width = MinChartWidth
    /\ height \in MinChartHeight..(MinChartHeight + MaxExtraRows)
    /\ maxValue = minScale
    /\ currentMax = 0
    /\ overlayMode = FALSE
    /\ scalingMode = ScalingLinear
    /\ timeScale = TimeScale1Min
    /\ columnCache = EmptyCache
    /\ platform \in FloatToIntOutcomes
    /\ screen = <<>>
    /\ GhostInit
    /\ ChartOnly

GlyphAddPeak ==
    /\ Len(hist) = 0
    /\ AddDataPoint(GlyphPeak[1], GlyphPeak[2])
    /\ UNCHANGED appVars

GlyphAddDataPoint ==
    /\ Len(hist) = 1
    /\ \E u, d \in GlyphLevels : AddDataPoint(u * 1024, d * 1024)
    /\ UNCHANGED appVars

GlyphRender == lastOp = "AddDataPoint" /\ Len(hist) = 2 /\ Render
    /\ UNCHANGED appVars

NextGlyph == GlyphAddPeak \/ GlyphAddDataPoint \/ GlyphRender

SpecGlyph == InitGlyph /\ [][NextGlyph]_vars

(***************************************************************************)
(* SpecCompact: the compact daemon.  The chart is the one left by          *)
(* NewBrailleChart(defaultDataPoints), SetOverlayMode(ov),                 *)
(* SetTimeScale(ts), SetMaxPoints(max(2 * 60 * minutes, defaultDataPoints))*)
(* and every tick adds a sample and renders the compact chart.             *)
(***************************************************************************)
defaultCompactSize == 2

CompactTimeScales == {TimeScale1Min, TimeScale5Min}

CompactSamples == {Background, <<8192, 512>>}

CompactWidths == {compactMinWidth - 1, compactMinWidth + 1}

CompactSizes == defaultCompactSize..(defaultCompactSize + MaxExtraLines)

InitCompact ==
    /\ \E ts \in CompactTimeScales, ov \in BOOLEAN :
          /\ uploadData = <<>>
          /\ downloadData = <<>>
          /\ maxPoints = Max2(2 * GetTimeScaleSeconds(ts), defaultDataPoints)
          /\ width = defaultChartWidth
          /\ height = defaultChartHeight
          /\ maxValue = minScale
          /\ currentMax = 0
          /\ overlayMode = ov
          /\ scalingMode = ScalingLogarithmic
          /\ timeScale = ts
          /\ columnCache = EmptyCache
    /\ platform \in FloatToIntOutcomes
    /\ screen = <<>>
    /\ GhostInit
    /\ ChartOnly

CompactAddDataPoint ==
    /\ lastOp # "AddDataPoint"
    /\ Len(hist) < MaxCompactAppends
    /\ \E s \in CompactSamples : AddDataPoint(s[1], s[2])
    /\ UNCHANGED appVars

CompactRender ==
    /\ lastOp # "RenderCompactWithSize"
    /\ \E tw \in CompactWidths, size \in CompactSizes : RenderCompactWithSize(tw, size)
    /\ UNCHANGED appVars

NextCompact == CompactAddDataPoint \/ CompactRender

SpecCompact == InitCompact /\ [][NextCompact]_vars

(***************************************************************************)
(* SpecApp: the full-screen program.  Messages arrive in any order; the    *)
(* view is drawn at most once after a message.                             *)
(***************************************************************************)
AppSamples == {<<2048, 1024>>, <<8192, 512>>, <<1024, 4096>>}

InitApp ==
    /\ uploadData = <<>>
    /\ downloadData = <<>>
    /\ maxPoints = maxDataPoints
    /\ width = defaultChartWidth
    /\ height = defaultChartHeight
    /\ maxValue = minScale
    /\ currentMax = 0
    /\ overlayMode = FALSE
    /\ scalingMode = ScalingLogarithmic
    /\ timeScale = TimeScale1Min
    /\ columnCache = EmptyCache
    /\ platform \in FloatToIntOutcomes
    /\ screen = <<>>
    /\ GhostInit
    /\ model = initialModel
    /\ stats = NewStats
    /\ updates = <<>>
    /\ msg = NoMsg
    /\ msgs = 0
    /\ pauses = 0
    /\ skipped = 0
    /\ ticking = (Init_cmd = tickCmd)
    /\ StyleInit

Running == ~model.quitting /\ msgs < MaxMsgs

AppSizes == {<<MinChartWidth, MinChartHeight + 2>>, <<MinChartWidth + 1, 0>>}

AppWindowSizeMsg ==
    /\ Running
    /\ \E size \in AppSizes : WindowSizeMsg(size[1], size[2])

AppKeyQuit == Running /\ KeyQuit

AppKeyPause == Running /\ KeyPause

AppKeyReset == Running /\ KeyReset

AppKeyStats == Running /\ KeyStats

AppKeyDisplayMode == Running /\ KeyDisplayMode

AppKeyScalingMode == Running /\ KeyScalingMode

AppKeyTimeScale == Running /\ KeyTimeScale

\* A tickMsg arrives only from an outstanding tick command
AppTick ==
    /\ Running
    /\ ticking
    /\ \/ Tick(FALSE, 0, 0)
       \/ \E s \in AppSamples : Tick(TRUE, s[1], s[2])

AppView == msg.type # "view" /\ View

NextApp ==
    \/ AppWindowSizeMsg
    \/ AppKeyQuit
    \/ AppKeyPause
    \/ AppKeyReset
    \/ AppKeyStats
    \/ AppKeyDisplayMode
    \/ AppKeyScalingMode
    \/ AppKeyTimeScale
    \/ AppTick
    \/ AppView

SpecApp == InitApp /\ [][NextApp]_vars

(***************************************************************************)
(* SpecEvict: a 3-minute chart whose buffer holds two windows; samples     *)
(* keep arriving after the buffer is full.  The chart is the one left by   *)
(* NewBrailleChart(EvictPoints), SetWidth(20), SetHeight(8),               *)
(* SetTimeScale(TimeScale3Min), SetOverlayMode(ov).                        *)
(***************************************************************************)
EvictSamples == {Background, <<8192, 512>>}

InitEvict ==
    /\ \E ov \in BOOLEAN : ChartAfterSetup(EvictPoints, TimeScale3Min, ov)
    /\ platform \in FloatToIntOutcomes
    /\ screen = <<>>
    /\ GhostInit
    /\ ChartOnly

EvictAddDataPoint ==
    /\ lastOp # "AddDataPoint"
    /\ Len(hist) < MaxEvictAppends
    /\ \E s \in EvictSamples : AddDataPoint(s[1], s[2])
    /\ UNCHANGED appVars

EvictRender ==
    /\ lastOp = "AddDataPoint"
    /\ Render
    /\ UNCHANGED appVars

NextEvict == EvictAddDataPoint \/ EvictRender

SpecEvict == InitEvict /\ [][NextEvict]_vars

(***************************************************************************)
(* SpecStyle: calls of getStyledCharWithGradient in one process.  The      *)
(* gradient positions are the ones a split-axis chart of height 8 and an   *)
(* overlay chart of height 21 pass for a full cell; the chart itself plays *)
(* no part.                                                                *)
(***************************************************************************)
StyleSplitHeight == MinChartHeight

StyleOverlayHeight == 21

FullCell == DotMask(DotRows)

\* heightPercent of createBrailleCharForLineSplit on a chart of height h:
\* distance / (halfHeight - 1)
SplitPositions(h) ==
    LET halfHeight == (h \div 2) * brailleDots
    IN {<<n, halfHeight - 1>> : n \in 0..(halfHeight - 1)}

\* gradientPos of createBrailleCharForOverlay on a chart of height h:
\* 1 - (lineTop + brailleDots / 2) / (fullHeight - 1)
OverlayPositions(h) ==
    LET fullHeight == h * brailleDots
    IN {<<(fullHeight - 1) - (y * brailleDots + brailleDots \div 2), fullHeight - 1>> :
            y \in 0..(h - 1)}

StylePositions ==
    SplitPositions(StyleSplitHeight) \cup OverlayPositions(StyleOverlayHeight)

InitStyle ==
    /\ NewBrailleChart(defaultDataPoints)
    /\ platform = AnyPlatform
    /\ screen = <<>>
    /\ GhostInit
    /\ model = initialModel
    /\ stats = NewStats
    /\ updates = <<>>
    /\ msg = NoMsg
    /\ msgs = 0
    /\ pauses = 0
    /\ skipped = 0
    /\ ticking = (Init_cmd = tickCmd)
    /\ StyleInit

\* Number of cached styled characters; a call that hits a cache adds none
CachedStyles == Cardinality(DOMAIN uploadCharCache) + Cardinality(DOMAIN downloadCharCache)

StyleUpload ==
    /\ CachedStyles < MaxStyleCalls
    /\ \E pos \in StylePositions : StyledCharCall(FullCell, pos[1], pos[2], TRUE)
    /\ UNCHANGED <<chartVars, screen, ghostVars, model, stats, updates, msg, msgs,
                   pauses, skipped, trail, ticking>>

StyleDownload ==
    /\ CachedStyles < MaxStyleCalls
    /\ \E pos \in StylePositions : StyledCharCall(FullCell, pos[1], pos[2], FALSE)
    /\ UNCHANGED <<chartVars, screen, ghostVars, model, stats, updates, msg, msgs,
                   pauses, skipped, trail, ticking>>

NextStyle == StyleUpload \/ StyleDownload

SpecStyle == InitStyle /\ [][NextStyle]_vars

(***************************************************************************)
(* SpecCycle: the scaling mode and the time scale of a freshly constructed *)
(* chart are set, to values in and out of range, and cycled.               *)
(***************************************************************************)
\* The run of consecutive calls of op after one more call
TrailAfter(op, from, result) ==
    IF trail.op = op THEN [trail EXCEPT !.seen = Append(@, result)]
    ELSE [op |-> op, from |-> from, seen |-> <<result>>]

InitCycle ==
    /\ NewBrailleChart(defaultDataPoints)
    /\ platform = AnyPlatform
    /\ screen = <<>>
    /\ GhostInit
    /\ ChartOnly

CycleFrame ==
    UNCHANGED <<model, stats, updates, msg, msgs, pauses, skipped, styleVars,
                ticking>>

CycleCycleScalingMode ==
    /\ others < MaxCycleCalls + 1
    /\ CycleScalingMode
    /\ trail' = TrailAfter("CycleScalingMode", scalingMode, scalingMode')
    /\ CycleFrame

CycleCycleTimeScale ==
    /\ others < MaxCycleCalls + 1
    /\ CycleTimeScale
    /\ trail' = TrailAfter("CycleTimeScale", timeScale, timeScale')
    /\ CycleFrame

CycleSetScalingMode ==
    /\ others = 0
    /\ \E mode \in (ScalingLinear - MaxModeArg)..(ScalingSquareRoot + MaxModeArg) :
          SetScalingMode(mode)
    /\ trail' = NoTrail
    /\ CycleFrame

CycleSetTimeScale ==
    /\ others = 0
    /\ \E ts \in (TimeScale1Min - MaxModeArg)..(TimeScale60Min + MaxModeArg) :
          SetTimeScale(ts)
    /\ trail' = NoTrail
    /\ CycleFrame

NextCycle ==
    \/ CycleCycleScalingMode
    \/ CycleCycleTimeScale
    \/ CycleSetScalingMode
    \/ CycleSetTimeScale

SpecCycle == InitCycle /\ [][NextCycle]_vars

(***************************************************************************)
(* SpecWide: the compact chart on a terminal that is as wide as the chart  *)
(* or wider.  Every sample is followed by a RenderCompactWithSize, as in   *)
(* the refresh loop of runCompactDaemon; the chart has the smallest width. *)
(***************************************************************************)
WideWidths == {MinChartWidth, MinChartWidth + MaxWider}

InitWide ==
    /\ \E ov \in BOOLEAN :
          ChartAfterSetup(defaultDataPoints, TimeScale1Min, ov)
    /\ platform \in FloatToIntOutcomes
    /\ screen = <<>>
    /\ GhostInit
    /\ ChartOnly

WideAddDataPoint ==
    /\ lastOp # "AddDataPoint"
    /\ Len(hist) < MaxWideAppends
    /\ \E s \in {Background} \cup SpikeSamples :
          /\ s = Background \/ ~spiked
          /\ AddDataPoint(s[1], s[2])
    /\ UNCHANGED appVars

WideRender ==
    /\ lastOp = "AddDataPoint"
    /\ \E tw \in WideWidths : RenderCompactWithSize(tw, defaultCompactSize)
    /\ UNCHANGED appVars

NextWide == WideAddDataPoint \/ WideRender

SpecWide == InitWide /\ [][NextWide]_vars

(***************************************************************************)
(* Properties of the sample buffer (checked under SpecBuffer).             *)
(***************************************************************************)
\* The last n elements of s (all of s when it is shorter)
LastN(s, n) == SubSeq(s, Len(s) - Min2(n, Len(s)) + 1, Len(s))

\* The upload / download components of a sequence of samples
UploadsOf(h) == [i \in 1..Len(h) |-> h[i][1]]

DownloadsOf(h) == [i \in 1..Len(h) |-> h[i][2]]

\* The largest value retained in either series, 0 when both are empty
TrueMax ==
    LET vals == {uploadData[i] : i \in 1..Len(uploadData)}
                \cup {downloadData[i] : i \in 1..Len(downloadData)}
    IN IF vals = {} THEN 0 ELSE SetMax(vals)

\* C1: after every public operation (NewBrailleChart, AddDataPoint,
\* SetMaxPoints, Reset) the upload series and the download series have the
\* same length.
C1_SeriesSameLength == Len(uploadData) = Len(downloadData)

\* An append beyond capacity has evicted a sample and the buffer is not empty
C1_Witness ==
    /\ lastOp = "AddDataPoint"
    /\ Len(hist) > maxPoints
    /\ Len(uploadData) = maxPoints
    /\ maxPoints >= 2

\* C2: for maxPoints >= 1, after n AddDataPoint calls (and nothing else) the
\* buffer holds exactly the most recent min(n, maxPoints) samples, in append
\* order.
C2_FifoMostRecent ==
    (onlyAppends /\ maxPoints >= 1) =>
        /\ Len(uploadData) = Min2(Len(hist), maxPoints)
        /\ uploadData = LastN(UploadsOf(hist), maxPoints)
        /\ downloadData = LastN(DownloadsOf(hist), maxPoints)

\* Two samples were evicted from a buffer of capacity 2 whose retained
\* samples differ from the evicted ones
C2_Witness ==
    /\ onlyAppends
    /\ maxPoints = 2
    /\ Len(hist) = maxPoints + 2
    /\ uploadData # SubSeq(UploadsOf(hist), 1, 2)
    /\ uploadData[1] # uploadData[2]

\* C3: currentMax is the true maximum of the retained upload and download
\* values (0 when the buffer is empty), also right after an eviction that
\* removes the upload and the download of the same sample one after the
\* other.
C3_CurrentMaxIsTrueMax == currentMax = TrueMax

\* The evicted sample held the maximum in both series and the retained
\* maximum is smaller
C3_Witness ==
    /\ lastOp = "AddDataPoint"
    /\ onlyAppends
    /\ Len(hist) = maxPoints + 1
    /\ maxPoints >= 1
    /\ hist[1] = <<4096, 4096>>
    /\ currentMax < 4096
    /\ currentMax > 0

(***************************************************************************)
(* Properties of rendering (checked under SpecScroll and Spec).            *)
(***************************************************************************)
\* The chart state a caller can observe: samples, scale and modes
observable == <<uploadData, downloadData, maxPoints, width, height, maxValue,
                currentMax, overlayMode, scalingMode, timeScale>>

\* The dot masks of a column, colours left out
DotsOf(col) == [y \in DOMAIN col |-> col[y].dots]

\* The column of the current display settings for one pair of values
FreshColumn(upload, download) ==
    ColumnOf(upload, download, maxValue, scalingMode, height, overlayMode, platform)

\* The largest sample of series s with index in [lo, hi), as a set maximum
RangeMax(s, lo, hi) == SetMax({0} \cup {s[j + 1] : j \in lo..(Min2(hi, Len(s)) - 1)})

\* C4: for a window size k > 1, a window that was complete at the previous
\* Render and is still visible is drawn with the same content by the next
\* Render after further AddDataPoint calls (its column only moves left).
C4_ClosedColumnsStable ==
    [][(/\ lastOp = "AddDataPoint"
        /\ lastOp' = "Render"
        /\ WindowSize > 1
        /\ screenLen >= 1)
       => \A i \in 0..(TotalCompleteWindows(screenLen, WindowSize) - 1) :
            LET before == i - FirstVisibleWindow(screenLen, WindowSize, width)
                after == i - FirstVisibleWindow(DataLen, WindowSize, width)
            IN (before >= 0 /\ after >= 0) => screen'[after] = screen[before]]_vars

\* C5: a Render that directly follows a Render returns the same text and
\* leaves samples, maxValue and modes as the first one left them.
C5_RenderTwiceSame ==
    [][(lastOp = "Render" /\ lastOp' = "Render")
       => (screen' = screen /\ observable' = observable)]_vars

\* Render was called twice in a row on a chart with a cached closed window
\* and a partial window
C5_Witness ==
    /\ since = "render2"
    /\ timeScale # TimeScale1Min
    /\ DataLen >= WindowSize + 1
    /\ DOMAIN columnCache.cols # {}

\* The Render of a 1-minute chart holding at least width samples
C6_RenderStep ==
    /\ lastOp = "AddDataPoint"
    /\ lastOp' = "Render"
    /\ timeScale = TimeScale1Min
    /\ DataLen >= width

\* The rightmost column of the new text is the newest sample
C6_NewestAtRight ==
    screen'[width - 1] =
        ColumnOf(uploadData[Len(uploadData)], downloadData[Len(downloadData)],
                 maxValue', scalingMode, height, overlayMode, platform)

\* Every column of the new text is the old text's right neighbour
C6_ShiftedLeft ==
    \A x \in 0..(width - 2) : DotsOf(screen'[x]) = DotsOf(screen[x + 1])

C8_WindowLayout ==
    LET k == WindowSize
        n == DataLen
        total == TotalWindows(n, k)
        visible == (total - Min2(total, width))..(total - 1)
    IN k > 1 =>
        /\ total = (n + k - 1) \div k
        /\ \A i \in 0..(total - 1) :
              /\ WindowStart(i, k) = i * k
              /\ WindowEnd(i, k, n) = Min2((i + 1) * k, n)
              /\ WindowStart(i, k) < WindowEnd(i, k, n)
        /\ \A j \in 0..(n - 1) :
              Cardinality({i \in 0..(total - 1) :
                              WindowStart(i, k) <= j /\ j < WindowEnd(i, k, n)}) = 1
        /\ {ColumnWindow(x, n, k, width) : x \in 0..(width - 1)} \ {-1} = visible
        /\ n >= 1 =>
              getVisibleDataMax(uploadData, downloadData, width, timeScale) =
                  Max2(RangeMax(uploadData, (total - Min2(total, width)) * k, n),
                       RangeMax(downloadData, (total - Min2(total, width)) * k, n))

\* More windows than columns, the last one partial, and a spike in a
\* window that has scrolled off
C8_Witness ==
    /\ lastOp = "Render"
    /\ WindowSize > 1
    /\ TotalWindows(DataLen, WindowSize) > width
    /\ DataLen % WindowSize # 0
    /\ uploadData[2] = 8192
    /\ maxValue < 8192

\* C9: every column drawn for a window shows the maximum of the upload
\* samples and the maximum of the download samples of that window.
C9_ColumnShowsWindowMax ==
    (lastOp = "Render" /\ WindowSize > 1) =>
        \A x \in 0..(width - 1) :
            LET i == ColumnWindow(x, DataLen, WindowSize, width)
            IN i >= 0 =>
                screen[x] =
                    FreshColumn(
                        RangeMax(uploadData, i * WindowSize, (i + 1) * WindowSize),
                        RangeMax(downloadData, i * WindowSize, (i + 1) * WindowSize))

\* A closed window whose middle sample is a spike: its column is the one of
\* the spike, not the one of the last sample or of the average
C9_Witness ==
    /\ lastOp = "Render"
    /\ WindowSize = 3
    /\ DataLen >= 4
    /\ DataLen <= width
    /\ uploadData[2] = 8192
    /\ uploadData[3] = 2048
    /\ screen[0] = FreshColumn(8192, 1024)
    /\ screen[0] # FreshColumn(uploadData[3], downloadData[3])
    /\ screen[0] # FreshColumn(4096, 512)

\* C10: a Render never returns a column that was cached before the last
\* Reset or the last change of display mode.
C10_NoColumnFromBeforeChange == ~servedStale

\* After a Reset the first column shows the window cached before it, which
\* is not what the samples appended since draw
C10_StaleColumnShown ==
    /\ lastOp = "Render"
    /\ servedStale
    /\ 0 \in staleKeys
    /\ DataLen = WindowSize
    /\ screen[0] # FreshColumn(RangeMax(uploadData, 0, WindowSize),
                               RangeMax(downloadData, 0, WindowSize))

\* C11: SetScalingMode, CycleScalingMode and CycleTimeScale empty the column
\* cache when they change the scaling mode or the time scale and leave it
\* alone when they do not; hence every cached column was rendered under the
\* current scaling mode and time scale.
C11_InvalidatedOnModeChange ==
    /\ [](cacheModes \subseteq {<<scalingMode, timeScale>>})
    /\ [][lastOp' \in {"SetScalingMode", "CycleScalingMode", "CycleTimeScale"}
           => columnCache' = IF scalingMode' # scalingMode \/ timeScale' # timeScale
                             THEN EmptyCache ELSE columnCache]_vars

\* After a change from logarithmic to square-root scaling a closed window
\* was rendered again: its column is the square-root one, which differs
\* from the logarithmic one that was cached before the change
C11_Witness ==
    /\ lastOp = "Render"
    /\ others = 1
    /\ scalingMode = ScalingSquareRoot
    /\ timeScale = TimeScale3Min
    /\ DataLen = WindowSize
    /\ 0 \in DOMAIN columnCache.cols
    /\ screen[0] = FreshColumn(RangeMax(uploadData, 0, WindowSize),
                               RangeMax(downloadData, 0, WindowSize))
    /\ screen[0] # ColumnOf(RangeMax(uploadData, 0, WindowSize),
                            RangeMax(downloadData, 0, WindowSize),
                            maxValue, ScalingLogarithmic, height, overlayMode,
                            platform)

\* C12: after NewBrailleChart and after any sequence of SetWidth and
\* SetHeight calls with arbitrary integers (zero and negative included) the
\* width is at least 20 and the height at least 8; a call stores its
\* argument when it is large enough and the minimum otherwise.
C12_SizeClamped ==
    /\ width >= 20
    /\ height >= 8
    /\ lastOp = "SetWidth" => width = Max2(lastArg, 20)
    /\ lastOp = "SetHeight" => height = Max2(lastArg, 8)

\* A negative width was given after the height had been set below its
\* minimum: both are at their minimum
C12_Witness ==
    /\ lastOp = "SetWidth"
    /\ lastArg < 0
    /\ others = 2
    /\ width = MinChartWidth
    /\ height = MinChartHeight

(***************************************************************************)
(* Properties of scaling (checked under SpecScale).                        *)
(***************************************************************************)
\* C13: in every reachable state the scale maximum maxValue is at least
\* 1024 (so it is never zero when scaleValue divides by it).
C13_MaxValueAtLeastFloor == maxValue >= 1024

\* A chart whose samples are all below the floor, one of them not zero,
\* has been rendered with the floor as its scale
C13_Witness ==
    /\ lastOp = "Render"
    /\ DataLen >= 2
    /\ TrueMax = 512
    /\ maxValue = minScale

\* Index of the oldest sample a Render draws
VisibleStart ==
    IF timeScale = TimeScale1Min THEN Max2(DataLen - width, 0)
    ELSE FirstVisibleWindow(DataLen, WindowSize, width) * WindowSize

\* The samples a Render draws
VisibleValues ==
    {uploadData[j] : j \in (VisibleStart + 1)..Len(uploadData)}
        \cup {downloadData[j] : j \in (VisibleStart + 1)..Len(downloadData)}

\* C14: in every scaling mode, scaleValue yields a well-defined number of
\* [0, 1] for every sample a Render draws; in particular no Render happens
\* in logarithmic mode with a non-zero visible sample and maxValue = 1024,
\* where the divisor log10(maxValue) - log10(1024) is zero.
C14_ScaleWellDefined ==
    lastOp = "Render" =>
        \A v \in VisibleValues : scaleInUnitRange(v, maxValue, scalingMode)

\* A Render in logarithmic mode at the floor scale with a sample of 1024:
\* its quotient is 0 / 0
C14_RenderedAtFloorInLogMode ==
    /\ lastOp = "Render"
    /\ scalingMode = ScalingLogarithmic
    /\ maxValue = 1024
    /\ 1024 \in VisibleValues

\* Values the scaling properties are evaluated on
ScaleValues == {0, 512, 1024, 2048, 4096, 8192}

\* The dots available to one series: halfHeight in split mode, fullHeight
\* in overlay mode
AvailableHeight ==
    IF overlayMode THEN height * brailleDots ELSE (height \div 2) * brailleDots

\* The column height in dots of a value at the current scale and mode
DotHeight(v) ==
    clampedHeight(v, maxValue, scalingMode, AvailableHeight, platform)

\* C15: at the maxValue (>= 1024) and in the scaling mode of any Render,
\* the column height in dots is 0 for the value 0, non-decreasing in the
\* value, at most the available height, and in linear mode the full
\* available height for value = maxValue.
C15_DotHeightMonotone ==
    (lastOp = "Render" /\ DataLen >= 1) =>
        /\ DotHeight(0) = 0
        /\ \A v1, v2 \in ScaleValues : v1 <= v2 => DotHeight(v1) <= DotHeight(v2)
        /\ \A v \in ScaleValues : DotHeight(v) <= AvailableHeight
        /\ scalingMode = ScalingLinear => DotHeight(maxValue) = AvailableHeight

\* A Render at the floor scale in logarithmic mode on a build whose
\* float-to-int conversion of NaN is negative: a drawn sample of 512 has a
\* negative height, below the height of the value 0
C15_NegativeHeight ==
    /\ lastOp = "Render"
    /\ 512 \in VisibleValues
    /\ DotHeight(512) < DotHeight(0)

(***************************************************************************)
(* Further properties of rendering.                                        *)
(***************************************************************************)
\* A column of blanks
BlankColumn == [y \in 1..height |-> Space]

\* C16: at the 1-minute scale column x shows the sample at
\* dataIndex(x) = dataLen - (width - x); a column whose index is outside
\* [0, dataLen) is all blanks (and no sample outside the buffer is read).
C16_OneMinuteColumns ==
    (lastOp = "Render" /\ timeScale = TimeScale1Min /\ DataLen >= 1) =>
        \A x \in 0..(width - 1) :
            LET dataIndex == DataLen - (width - x)
            IN IF dataIndex >= 0 /\ dataIndex < DataLen
               THEN screen[x] = FreshColumn(uploadData[dataIndex + 1],
                                            downloadData[dataIndex + 1])
               ELSE screen[x] = BlankColumn

\* Five samples on a chart of 20 columns: the 15 columns on the left have
\* a negative index and are blank, the oldest sample follows them
C16_Witness ==
    /\ lastOp = "Render"
    /\ timeScale = TimeScale1Min
    /\ DataLen = 5
    /\ width = 20
    /\ \A x \in 0..14 : screen[x] = BlankColumn
    /\ screen[15] # BlankColumn
    /\ screen[15] = FreshColumn(uploadData[1], downloadData[1])

\* C17: after Reset both series are empty, currentMax is 0, GetMaxValue is
\* the floor 1024 and GetDataLength is 0, whatever the state was before; a
\* Render that follows returns the empty chart (blanks only, width x
\* height).
C17_ResetClears ==
    [][/\ lastOp' = "Reset" =>
            /\ uploadData' = <<>>
            /\ downloadData' = <<>>
            /\ currentMax' = 0
            /\ maxValue' = 1024
            /\ GetDataLength(uploadData', downloadData') = 0
       /\ (lastOp = "Reset" /\ lastOp' = "Render") =>
            /\ DOMAIN screen' = 0..(width - 1)
            /\ \A x \in 0..(width - 1) :
                  /\ DOMAIN screen'[x] = 1..height
                  /\ \A y \in 1..height : screen'[x][y] = Space]_vars

\* A chart that held a spike of 8192 and a cached column was reset and
\* rendered: the text is blank and the scale is the floor
C17_Witness ==
    /\ lastOp = "Render"
    /\ since = "render"
    /\ others = 1
    /\ DataLen = 0
    /\ Len(hist) >= 3
    /\ \E i \in 1..Len(hist) : hist[i][1] = 8192
    /\ DOMAIN columnCache.cols # {}
    /\ maxValue = minScale
    /\ currentMax = 0
    /\ screen = renderEmptyChart(width, height)

(***************************************************************************)
(* Further properties of the sample buffer (checked under SpecBuffer).     *)
(***************************************************************************)
\* C18: SetMaxPoints(n) with 0 < n < length keeps exactly the most recent n
\* samples of both series, in order, and recomputes currentMax over them;
\* with n >= length it removes nothing and only sets the bound; an
\* AddDataPoint evicts (one sample, the oldest) only when the length would
\* exceed the bound.
C18_SetMaxPointsTrimsOldest ==
    [][/\ (lastOp' = "SetMaxPoints" /\ lastArg' > 0) =>
            /\ maxPoints' = lastArg'
            /\ uploadData' = LastN(uploadData, lastArg')
            /\ downloadData' = LastN(downloadData, lastArg')
            /\ lastArg' < Len(uploadData) =>
                  /\ Len(uploadData') = lastArg'
                  /\ currentMax' = TrueMax'
            /\ lastArg' >= Len(uploadData) =>
                  /\ uploadData' = uploadData
                  /\ downloadData' = downloadData
                  /\ currentMax' = currentMax
       /\ lastOp' = "AddDataPoint" =>
            LET s == hist'[Len(hist')]
            IN IF Len(uploadData) + 1 <= maxPoints
               THEN /\ uploadData' = Append(uploadData, s[1])
                    /\ downloadData' = Append(downloadData, s[2])
               ELSE /\ uploadData' = Tail(Append(uploadData, s[1]))
                    /\ downloadData' = Tail(Append(downloadData, s[2]))]_vars

\* SetMaxPoints(2) removed the oldest of three samples, which held the
\* maximum of both series: the two most recent ones remain and currentMax
\* is their maximum
C18_Witness ==
    /\ lastOp = "SetMaxPoints"
    /\ lastArg = 2
    /\ dropped = 1
    /\ Len(hist) = 3
    /\ hist[1] = <<4096, 4096>>
    /\ uploadData = <<hist[2][1], hist[3][1]>>
    /\ downloadData = <<hist[2][2], hist[3][2]>>
    /\ uploadData[1] # uploadData[2]
    /\ currentMax < 4096
    /\ currentMax = TrueMax

\* C19: the text Render returns is exactly height rows of exactly width
\* cells each, separated by single newlines, with no trailing newline, for
\* an empty chart and for any buffer, in split and overlay mode and for
\* every time scale.
C19_TextIsWidthByHeight ==
    lastOp = "Render" =>
        LET text == renderedText(screen, height)
        IN /\ Len(text) = height * (width + 1) - 1
           /\ \A j \in 1..Len(text) :
                 (text[j] = Newline) <=> (j % (width + 1) = 0)

\* A windowed chart with data, resized to 10 rows and rendered: 10 rows of
\* 20 cells, the first newline after 20 cells, a cell at the end
C19_Witness ==
    /\ lastOp = "Render"
    /\ DataLen >= WindowSize + 1
    /\ timeScale # TimeScale1Min
    /\ height = 10
    /\ width = 20
    /\ Len(renderedText(screen, height)) = 209
    /\ renderedText(screen, height)[21] = Newline
    /\ renderedText(screen, height)[209] # Newline
    /\ \E j \in 1..209 : renderedText(screen, height)[j].dots > 0

\* The dot rows of a cell that a series of the given height fills in
\* overlay mode (distance from the bottom edge at most the height)
OverlayRows(line, h) ==
    {r \in DotRows : height * brailleDots - (line * brailleDots + r) <= h}

\* C20: in overlay mode a cell is overlap-styled exactly when some dot of
\* it is filled by both series; otherwise it is upload-styled when only
\* upload dots are set and download-styled when only download dots are
\* set.  When upload and download were equal in every sample, every
\* non-empty cell of the text is overlap-styled.
C20_OverlapStyling ==
    (lastOp = "Render" /\ overlayMode /\ DataLen >= 1) =>
        /\ \A hu, hd \in {DotHeight(v) : v \in ScaleValues} :
           \A line \in 0..(height - 1) :
              LET up == OverlayRows(line, hu)
                  down == OverlayRows(line, hd)
                  cell == createBrailleCharForOverlay(line, hu, hd,
                              height * brailleDots)
              IN /\ (cell.style = "overlap") <=> (DotMask(up \cap down) # 0)
                 /\ (up # {} /\ down = {}) => cell.style = "upload"
                 /\ (up = {} /\ down # {}) => cell.style = "download"
                 /\ (up = {} /\ down = {}) => cell = Space
                 /\ cell.dots = DotMask(up \cup down)
        /\ (\A i \in 1..Len(hist) : hist[i][1] = hist[i][2]) =>
              \A x \in 0..(width - 1) : \A y \in 1..height :
                  screen[x][y] # Space => screen[x][y].style = "overlap"

\* An overlay Render whose newest column has an upload-only cell at the top
\* and a cell with dots of both series at the bottom
C20_Witness ==
    /\ lastOp = "Render"
    /\ overlayMode
    /\ DataLen >= 1
    /\ screen[width - 1][1].style = "upload"
    /\ screen[width - 1][height].style = "overlap"
    /\ screen[width - 1][height].dots = DotMask(DotRows)

(***************************************************************************)
(* Properties of the glyph compositor (checked under SpecGlyph).           *)
(***************************************************************************)
\* The dot rows of a cell that are set in its mask
RowsOfMask(m) == CHOOSE R \in SUBSET DotRows : DotMask(R) = m

\* The dot at absolute position p (from the top) of a column is filled
Filled(col, p) == (p % brailleDots) \in RowsOfMask(col[p \div brailleDots + 1].dots)

\* Bc.Render's centerLine * brailleDots
HalfHeight == (height \div 2) * brailleDots

\* C21: in split-axis mode, for even and odd heights and every pair of
\* column heights, no cell holds dots of both series: a download-coloured
\* cell has dots above the center line only, an upload-coloured cell at or
\* below it only, and every cell with dots has one of the two colours.
C21_SplitCellsOneSeries ==
    (lastOp = "Render" /\ ~overlayMode) =>
        \A x \in 0..(width - 1) : \A y \in 1..height :
            LET cell == screen[x][y]
                ps == {(y - 1) * brailleDots + r : r \in RowsOfMask(cell.dots)}
            IN /\ cell.dots # 0 => cell.style \in {"upload", "download"}
               /\ cell.style = "download" => \A p \in ps : p < HalfHeight
               /\ cell.style = "upload" => \A p \in ps : p >= HalfHeight
               /\ cell.style = "download" => y - 1 < height \div 2
               /\ cell.style = "upload" => y - 1 >= height \div 2

\* A chart of odd height whose newest column has one download dot in the
\* cell just above the center line and one upload dot in the cell just
\* below it
C21_Witness ==
    /\ lastOp = "Render"
    /\ height = 9
    /\ screen[width - 1][4] = getStyledCharWithGradient(192, 0, 15, FALSE)
    /\ screen[width - 1][5] = getStyledCharWithGradient(9, 0, 15, TRUE)

(***************************************************************************)
(* Properties of the scale maximum.                                        *)
(***************************************************************************)
\* The largest sample a Render draws, raised to the floor of 1024
FreshScale == Max2(SetMax(VisibleValues \cup {0}), 1024)

\* C22: after every Render of a non-empty chart, maxValue is the maximum
\* of the visible samples, raised to 1024, whatever maxValue was before
\* the call.  (The upper limit of 100 MiB/s is above every sample here.)
C22_ScaleIsFresh ==
    (lastOp = "Render" /\ DataLen >= 1) => maxValue = FreshScale

\* A peak of 2048 has left the buffer, the samples drawn are below the
\* floor, and Render left the scale at the old peak
C22_ScaleKeptFromBefore ==
    /\ lastOp = "Render"
    /\ DataLen >= 1
    /\ TrueMax = 512
    /\ FreshScale = 1024
    /\ maxValue = 2048

\* The values of the last n elements of a series
TailValues(s, n) == {s[i] : i \in (Len(s) - Min2(n, Len(s)) + 1)..Len(s)}

\* C23: getVisibleDataMax is, at the 1-minute scale, the maximum over the
\* most recent min(dataLen, width) samples of both series, and for a window
\* size k > 1 the maximum over all samples with index >= firstVisibleWindow
\* * k, i.e. over whole windows and not over the last width raw samples.
C23_VisibleMax ==
    LET k == WindowSize
        total == (DataLen + k - 1) \div k
        first == IF total > width THEN total - width ELSE 0
        got == getVisibleDataMax(uploadData, downloadData, width, timeScale)
    IN IF timeScale = TimeScale1Min
       THEN got = SetMax({0} \cup TailValues(uploadData, width)
                            \cup TailValues(downloadData, width))
       ELSE got = SetMax({0} \cup TailValues(uploadData, DataLen - first * k)
                            \cup TailValues(downloadData, DataLen - first * k))

\* A windowed chart of more than width samples whose second sample is a
\* spike: the spike is not among the last width samples but its window is
\* visible, and it is the visible maximum
C23_Witness ==
    /\ WindowSize > 1
    /\ DataLen > width + 2
    /\ uploadData[2] = 8192
    /\ SetMax(TailValues(uploadData, width) \cup TailValues(downloadData, width)) = 2048
    /\ getVisibleDataMax(uploadData, downloadData, width, timeScale) = 8192

(***************************************************************************)
(* Properties of the compact chart (checked under SpecCompact).            *)
(***************************************************************************)
\* chartWidth and compactHeight of the last RenderCompactWithSize
CompactWidth == Max2(lastArg[1], compactMinWidth)

CompactHeight == lastArg[2]

\* The compact column of a pair at the scale of the compact text
FreshCompactColumn(upload, download) ==
    CompactColumnOf(upload, download, maxValue, scalingMode, CompactHeight,
                    overlayMode, platform)

\* C24: for a window size k > 1 every column of RenderCompactWithSize shows
\* the maximum of the k-sample window that Render assigns to that column,
\* and a column without a window is blank.
C24_CompactShowsWindowMax ==
    (lastOp = "RenderCompactWithSize" /\ WindowSize > 1 /\ DataLen >= 1) =>
        \A x \in 0..(CompactWidth - 1) :
            LET i == ColumnWindow(x, DataLen, WindowSize, CompactWidth)
            IN screen[x] =
                 IF i >= 0
                 THEN FreshCompactColumn(
                        RangeMax(uploadData, i * WindowSize, (i + 1) * WindowSize),
                        RangeMax(downloadData, i * WindowSize, (i + 1) * WindowSize))
                 ELSE FreshCompactColumn(0, 0)

\* Two samples of one 5-sample window are drawn as two columns, each from
\* its own raw sample, at the right edge
C24_RawSamplesShown ==
    /\ lastOp = "RenderCompactWithSize"
    /\ WindowSize = 5
    /\ DataLen = 2
    /\ uploadData = <<8192, 2048>>
    /\ screen[CompactWidth - 2] = FreshCompactColumn(8192, 512)
    /\ screen[CompactWidth - 1] = FreshCompactColumn(2048, 1024)
    /\ screen[CompactWidth - 1] # screen[CompactWidth - 2]
    /\ screen[0] = FreshCompactColumn(0, 0)
    /\ screen[0] # FreshCompactColumn(8192, 1024)

(***************************************************************************)
(* Properties of the full-screen program (checked under SpecApp).          *)
(***************************************************************************)
\* The step handled a tick / the given key
TickHandled == msgs' = msgs + 1 /\ msg'.type = "tick"

KeyHandled(k) == msgs' = msgs + 1 /\ msg' = [type |-> "key", key |-> k]

\* C25: a tick handled while paused adds no sample to the chart and leaves
\* the statistics and the current rates as they are; the Pause key toggles
\* the flag and touches nothing else; a tick handled while not paused whose
\* sampling succeeds adds exactly one sample to the chart and one update to
\* the statistics.
C25_PauseResume ==
    [][/\ (TickHandled /\ model.paused) =>
            UNCHANGED <<uploadData, downloadData, hist, stats, updates, model>>
       /\ KeyHandled("Pause") =>
            /\ model' = [model EXCEPT !.paused = ~model.paused]
            /\ UNCHANGED <<uploadData, downloadData, hist, stats, updates>>
       /\ (TickHandled /\ ~model.paused /\ msg'.ok) =>
            /\ hist' = Append(hist, <<msg'.upload, msg'.download>>)
            /\ uploadData' = Append(uploadData, msg'.upload)
            /\ downloadData' = Append(downloadData, msg'.download)
            /\ updates' = Append(updates, <<msg'.upload, msg'.download>>)
            /\ stats'.TotalUpload = stats.TotalUpload + msg'.upload \div 2
            /\ stats'.TotalDownload = stats.TotalDownload + msg'.download \div 2
            /\ model'.currentUpload = msg'.upload
            /\ model'.currentDownload = msg'.download
            /\ model'.paused = model.paused]_vars

\* Pause, a tick that is skipped, resume, a tick that is sampled: the chart
\* and the statistics hold the one sample of the last tick
C25_Witness ==
    /\ msgs = 4
    /\ pauses = 2
    /\ skipped = 1
    /\ ~model.paused
    /\ msg = [type |-> "tick", ok |-> TRUE, upload |-> 8192, download |-> 512]
    /\ uploadData = <<8192>>
    /\ updates = <<<<8192, 512>>>>
    /\ stats.TotalUpload = 4096

\* C26: handling the Reset key empties the chart and zeroes the totals and
\* the peaks of the statistics; the pause flag, the display mode, the
\* scaling mode, the time scale and maxPoints are left as they are.
C26_ResetKey ==
    [][KeyHandled("Reset") =>
          /\ uploadData' = <<>>
          /\ downloadData' = <<>>
          /\ stats'.TotalUpload = 0
          /\ stats'.TotalDownload = 0
          /\ stats'.PeakUpload = 0
          /\ stats'.PeakDownload = 0
          /\ model'.paused = model.paused
          /\ model'.displayMode = model.displayMode
          /\ UNCHANGED <<overlayMode, scalingMode, timeScale, maxPoints>>]_vars

\* A paused program that had sampled a spike was reset: chart and
\* statistics are empty, the program is still paused
C26_Witness ==
    /\ msg = [type |-> "key", key |-> "Reset"]
    /\ hist = <<<<8192, 512>>>>
    /\ model.paused
    /\ model.currentUpload = 8192
    /\ uploadData = <<>>
    /\ downloadData = <<>>
    /\ stats = NewStats
    /\ updates = <<>>

\* The largest element of a sequence of rates, 0 for none
RECURSIVE SeqMax(_)
SeqMax(q) == IF q = <<>> THEN 0 ELSE Max2(Head(q), SeqMax(Tail(q)))

\* C27: the peaks are the largest upload and the largest download rate
\* passed to Stats.Update since creation or the last Stats.Reset (0 if
\* none), and only the Reset key lowers a peak.
C27_PeaksAreMaxima ==
    /\ [](/\ stats.PeakUpload = SeqMax(UploadsOf(updates))
          /\ stats.PeakDownload = SeqMax(DownloadsOf(updates)))
    /\ [][\/ KeyHandled("Reset")
          \/ /\ stats'.PeakUpload >= stats.PeakUpload
             /\ stats'.PeakDownload >= stats.PeakDownload]_vars

\* After three updates the peaks come from two different earlier samples
\* and the latest sample is below both
C27_Witness ==
    /\ updates = <<<<8192, 512>>, <<1024, 4096>>, <<2048, 1024>>>>
    /\ stats.PeakUpload = 8192
    /\ stats.PeakDownload = 4096
    /\ msg.type = "tick"

(***************************************************************************)
(* Properties of the window layout under eviction (SpecEvict).             *)
(***************************************************************************)
\* The samples of window i of a buffer of dataLen samples, each named by
\* its position in the history of histLen appended samples (the buffer
\* holds the newest dataLen of them)
WindowMembers(i, k, dataLen, histLen) ==
    {(histLen - dataLen) + n : n \in WindowStart(i, k)..(WindowEnd(i, k, dataLen) - 1)}

\* C28: for a window size k > 1, the samples of a complete window before an
\* AddDataPoint are the samples of one window after it, for every complete
\* window that loses no sample to the eviction of the oldest sample.
C28_WindowsKeepMembers ==
    [][(lastOp' = "AddDataPoint" /\ Len(hist') = Len(hist) + 1 /\ WindowSize > 1) =>
          \A i \in 0..(TotalCompleteWindows(DataLen, WindowSize) - 1) :
              LET before == WindowMembers(i, WindowSize, DataLen, Len(hist))
              IN (\A id \in before : id >= Len(hist') - DataLen') =>
                    \E j \in 0..(TotalWindows(DataLen', WindowSize) - 1) :
                        WindowMembers(j, WindowSize, DataLen', Len(hist')) = before]_vars

\* The buffer was full with two complete windows and one more sample was
\* appended: the 4th, 5th and 6th sample, window 1 before, are now the last
\* sample of window 0 and the first two of window 1
C28_WindowSlid ==
    /\ lastOp = "AddDataPoint"
    /\ WindowSize = 3
    /\ Len(hist) = EvictPoints + 1
    /\ DataLen = EvictPoints
    /\ dropped = 1
    /\ WindowMembers(0, WindowSize, DataLen, Len(hist)) = {1, 2, 3}
    /\ WindowMembers(1, WindowSize, DataLen, Len(hist)) = {4, 5, 6}
    /\ WindowMembers(1, WindowSize, DataLen, Len(hist) - 1) = {3, 4, 5}

(***************************************************************************)
(* Properties of the window layout (checked under SpecScroll).             *)
(***************************************************************************)
\* Number of samples in window i
WindowLength(i) ==
    WindowEnd(i, WindowSize, DataLen) - WindowStart(i, WindowSize)

\* The windows with fewer than k samples
OpenWindows ==
    {i \in 0..(TotalWindows(DataLen, WindowSize) - 1) : WindowLength(i) < WindowSize}

\* C29: for a window size k > 1 at most one window has fewer than k
\* samples; there is one exactly when dataLen mod k is not 0, it is the
\* newest window and holds dataLen mod k samples; every other window has k
\* samples and is counted among the complete windows, the open one is not.
C29_OneOpenWindow ==
    WindowSize > 1 =>
        /\ Cardinality(OpenWindows) <= 1
        /\ (OpenWindows # {}) <=> (DataLen % WindowSize # 0)
        /\ \A i \in OpenWindows :
              /\ i = TotalWindows(DataLen, WindowSize) - 1
              /\ WindowLength(i) = DataLen % WindowSize
              /\ i >= TotalCompleteWindows(DataLen, WindowSize)
        /\ \A i \in 0..(TotalWindows(DataLen, WindowSize) - 1) :
              i \notin OpenWindows =>
                  /\ WindowLength(i) = WindowSize
                  /\ i < TotalCompleteWindows(DataLen, WindowSize)

\* Five samples at the 3-minute scale were rendered: window 0 is complete,
\* window 1 is open with two samples
C29_Witness ==
    /\ lastOp = "Render"
    /\ WindowSize = 3
    /\ DataLen = 5
    /\ OpenWindows = {1}
    /\ WindowLength(1) = 2
    /\ WindowLength(0) = 3

(***************************************************************************)
(* Properties of the split-axis fill (checked under SpecGlyph).            *)
(***************************************************************************)
\* Dot height of a value on the linear scale: int(value / maxValue *
\* halfHeight), at most halfHeight
LinearHalfHeight(value) == Min2((value * HalfHeight) \div maxValue, HalfHeight)

\* C30: in split-axis mode a column of download height d and upload height
\* u has a dot at p < halfHeight iff halfHeight - p <= d and a dot at
\* p >= halfHeight iff p - halfHeight < u, that is exactly d dot rows
\* directly above the center line and exactly u directly below it.
C30_SplitFillRule ==
    (lastOp = "Render" /\ ~overlayMode /\ scalingMode = ScalingLinear) =>
        \A x \in 0..(width - 1) :
            LET dataIndex == DataLen - (width - x)
                u == LinearHalfHeight(ValueAt(uploadData, dataIndex))
                d == LinearHalfHeight(ValueAt(downloadData, dataIndex))
                dotPositions == 0..(height * brailleDots - 1)
            IN /\ \A p \in dotPositions :
                     Filled(screen[x], p) <=>
                        IF p < HalfHeight THEN HalfHeight - p <= d
                        ELSE p - HalfHeight < u
               /\ {p \in dotPositions : Filled(screen[x], p)} =
                     (HalfHeight - d)..(HalfHeight + u - 1)

\* A chart of height 9 (axis at dot 16): the newest column has download
\* height 5 and upload height 3, so dots 11..15 and 16..18 are filled and
\* dots 10 and 19 are not
C30_Witness ==
    /\ lastOp = "Render"
    /\ height = 9
    /\ uploadData = <<16384, 3072>>
    /\ downloadData = <<16384, 5120>>
    /\ \A p \in 11..18 : Filled(screen[width - 1], p)
    /\ ~Filled(screen[width - 1], 10)
    /\ ~Filled(screen[width - 1], 19)

(***************************************************************************)
(* Properties of the gradient (checked under SpecGlyph).                   *)
(***************************************************************************)
\* C31: in split-axis mode two cells with dots of the same series in the
\* same output row have the same gradient step, whatever the heights of
\* their columns are.
C31_SameRowSameStep ==
    (lastOp = "Render" /\ ~overlayMode) =>
        \A y \in 1..height : \A x1, x2 \in 0..(width - 1) :
            (/\ screen[x1][y].dots # 0
             /\ screen[x2][y].dots # 0
             /\ screen[x1][y].style = screen[x2][y].style)
                => screen[x1][y].step = screen[x2][y].step

\* Height 8: in the row just below the center line the column of the peak
\* has four upload dot rows and the newest column one; the first is drawn
\* with step 4 of the upload gradient and the second with step 5
C31_TipCellLighter ==
    /\ lastOp = "Render"
    /\ height = 8
    /\ uploadData = <<16384, 1024>>
    /\ screen[width - 2][5] = [dots |-> 255, style |-> "upload", step |-> 4]
    /\ screen[width - 1][5] = [dots |-> 9, style |-> "upload", step |-> 5]

(***************************************************************************)
(* Properties of the style caches (checked under SpecStyle).               *)
(***************************************************************************)
\* C32: what getStyledCharWithGradient returns for a character, a height
\* percentage and a series is what the styling of these arguments yields,
\* whatever calls were made before.
C32_CacheTransparent ==
    CachedStyles >= 1 =>
      styled = getStyledCharWithGradient(styleCall.dots, styleCall.n, styleCall.d,
                                       styleCall.isUpload)

\* A full upload cell at 17/83 (line 16 of an overlay chart of height 21)
\* is styled after one at 3/15 (the row below the axis of a split chart of
\* height 8): both have the key 0.20, the cached step 4 is returned and the
\* step of 17/83 is 3
C32_StaleStyle ==
    /\ styleCall = [dots |-> FullCell, n |-> 17, d |-> 83, isUpload |-> TRUE]
    /\ DOMAIN uploadCharCache = {CacheKey(FullCell, 3, 15)}
    /\ CacheKey(FullCell, 3, 15) = CacheKey(FullCell, 17, 83)
    /\ styled.step = 4
    /\ getGradientStepIndex(17, 83, uploadSteps) = 3

(***************************************************************************)
(* Properties of the mode cycles (checked under SpecCycle).                *)
(***************************************************************************)
\* The value a run of Cycle calls had before its i-th call
TrailBefore(i) == IF i = 1 THEN trail.from ELSE trail.seen[i - 1]

\* C33: every CycleScalingMode call goes from Linear to Logarithmic, from
\* Logarithmic to Square Root, from Square Root to Linear and from any
\* other mode to Linear; three consecutive calls from a mode in range
\* return to it and visit each mode exactly once; a new chart starts at
\* Logarithmic.
C33_ScalingModeCycle ==
    /\ lastOp = "NewBrailleChart" => scalingMode = ScalingLogarithmic
    /\ trail.op = "CycleScalingMode" =>
        /\ scalingMode = trail.seen[Len(trail.seen)]
        /\ \A i \in 1..Len(trail.seen) :
              trail.seen[i] =
                 CASE TrailBefore(i) = ScalingLinear -> ScalingLogarithmic
                   [] TrailBefore(i) = ScalingLogarithmic -> ScalingSquareRoot
                   [] TrailBefore(i) = ScalingSquareRoot -> ScalingLinear
                   [] OTHER -> ScalingLinear
        /\ \A i \in 1..(Len(trail.seen) - 2) :
              TrailBefore(i) \in ScalingModes =>
                  /\ trail.seen[i + 2] = TrailBefore(i)
                  /\ {trail.seen[i], trail.seen[i + 1], trail.seen[i + 2]} = ScalingModes
                  /\ trail.seen[i] # trail.seen[i + 1]
                  /\ trail.seen[i + 1] # trail.seen[i + 2]

\* Three calls on a new chart: Square Root, Linear, and Logarithmic again
C33_Witness ==
    /\ trail = [op |-> "CycleScalingMode", from |-> ScalingLogarithmic,
                seen |-> <<ScalingSquareRoot, ScalingLinear, ScalingLogarithmic>>]
    /\ others = 3
    /\ scalingMode = ScalingLogarithmic
    /\ lastOp = "CycleScalingMode"

\* The scales in the order of the cycle
CycleOrder ==
    <<TimeScale1Min, TimeScale3Min, TimeScale5Min, TimeScale10Min,
      TimeScale15Min, TimeScale30Min, TimeScale60Min>>

\* The window sizes of the scales in the order of the cycle
CycleWindowSizes == <<1, 3, 5, 10, 15, 30, 60>>

\* The place of a scale in the order of the cycle, 0 for a value out of range
PlaceOf(ts) ==
    IF \E p \in 1..Len(CycleOrder) : CycleOrder[p] = ts
    THEN CHOOSE p \in 1..Len(CycleOrder) : CycleOrder[p] = ts
    ELSE 0

\* C34: every CycleTimeScale call goes to the next scale in the order 1, 3,
\* 5, 10, 15, 30, 60 minutes and from 60 back to 1; seven consecutive calls
\* return to the starting scale and visit every scale exactly once, and
\* the window sizes of the scales are 1, 3, 5, 10, 15, 30, 60 in this order.
C34_TimeScaleCycle ==
    /\ lastOp = "NewBrailleChart" => timeScale = TimeScale1Min
    /\ timeScale \in TimeScales => WindowSize = CycleWindowSizes[PlaceOf(timeScale)]
    /\ trail.op = "CycleTimeScale" =>
        /\ timeScale = trail.seen[Len(trail.seen)]
        /\ \A i \in 1..Len(trail.seen) :
              /\ PlaceOf(trail.seen[i]) = (PlaceOf(TrailBefore(i)) % Len(CycleOrder)) + 1
              /\ WindowSizeOf(trail.seen[i]) = CycleWindowSizes[PlaceOf(trail.seen[i])]
        /\ \A i \in 1..(Len(trail.seen) - Len(CycleOrder) + 1) :
              TrailBefore(i) \in TimeScales =>
                  /\ trail.seen[i + Len(CycleOrder) - 1] = TrailBefore(i)
                  /\ {trail.seen[j] : j \in i..(i + Len(CycleOrder) - 1)} = TimeScales
                  /\ Cardinality({trail.seen[j] : j \in i..(i + Len(CycleOrder) - 1)})
                        = Len(CycleOrder)

\* Seven calls on a new chart: 3, 5, 10, 15, 30, 60 minutes and 1 again
C34_Witness ==
    /\ trail.op = "CycleTimeScale"
    /\ trail.from = TimeScale1Min
    /\ Len(trail.seen) = Len(CycleOrder)
    /\ timeScale = TimeScale1Min
    /\ WindowSize = 1
    /\ lastOp = "CycleTimeScale"

\* The number of cells on line l of the compact text
CompactLineCells(l) ==
    Cardinality({x \in DOMAIN screen : l \in DOMAIN screen[x]})

\* C35: RenderCompactWithSize(terminalWidth, n) returns n lines and every
\* line has max(terminalWidth, 10) cells, in split and in overlay mode, for
\* odd n too and when the buffer is empty.
C35_CompactShape ==
    lastOp = "RenderCompactWithSize" =>
        /\ DOMAIN screen = 0..(CompactWidth - 1)
        /\ \A x \in DOMAIN screen : DOMAIN screen[x] \subseteq 1..CompactHeight
        /\ \A l \in 1..CompactHeight : CompactLineCells(l) = CompactWidth

\* A split chart of size 3 with data: two full lines and an empty third
C35_EmptyLastLine ==
    /\ lastOp = "RenderCompactWithSize"
    /\ ~overlayMode
    /\ DataLen >= 1
    /\ CompactHeight = defaultCompactSize + 1
    /\ CompactLineCells(1) = CompactWidth
    /\ CompactLineCells(2) = CompactWidth
    /\ CompactLineCells(3) = 0

(***************************************************************************)
(* Properties of the compact chart on a wide terminal (SpecWide).          *)
(***************************************************************************)
\* The index of the sample drawn in compact column x
CompactDataIndex(x) == DataLen - (CompactWidth - x)

\* C36: every sample shown in one of the max(terminalWidth, 10) columns of
\* RenderCompactWithSize is at most the maxValue used to scale it.
C36_CompactScaleCovers ==
    (lastOp = "RenderCompactWithSize" /\ DataLen >= 1) =>
        \A x \in 0..(CompactWidth - 1) :
            /\ ValueAt(uploadData, CompactDataIndex(x)) <= maxValue
            /\ ValueAt(downloadData, CompactDataIndex(x)) <= maxValue

\* A terminal wider than the chart: the oldest drawn sample is 8192 and
\* the scale, taken from the newest width samples, is 2048
C36_SpikeAboveScale ==
    /\ lastOp = "RenderCompactWithSize"
    /\ CompactWidth > width
    /\ DataLen = width + 1
    /\ CompactDataIndex(CompactWidth - DataLen) = 0
    /\ uploadData[1] = 8192
    /\ maxValue = 2048
    /\ screenMax = 2048

\* C37: the tick loop never stops before quit: a tick command is
\* outstanding as long as the program has not quit, every handled tickMsg
\* returns a new tick command, paused or not, sampling succeeded or failed,
\* and a tick whose sampling failed leaves the chart, the statistics and the
\* current rates unchanged.
C37_TickLoop ==
    /\ [](~model.quitting => ticking)
    /\ [][TickHandled =>
            /\ ticking'
            /\ ~msg'.ok => /\ UNCHANGED <<chartVars, stats, updates>>
                           /\ model'.currentUpload = model.currentUpload
                           /\ model'.currentDownload = model.currentDownload]_vars

\* After a sample, the program is paused, a tick arrives whose sampling
\* would have failed, and the next tick is scheduled
C37_Witness ==
    /\ msg.type = "tick"
    /\ ~msg.ok
    /\ model.paused
    /\ skipped >= 1
    /\ ticking
    /\ ~model.quitting
    /\ Len(updates) >= 1
    /\ DataLen >= 1

\* C38: in every state of the full-screen program the mode the status bar
\* shows and the chart agree: model.displayMode is "overlay" exactly when
\* the chart is in overlay mode and "split" otherwise.
C38_DisplayModeAgrees ==
    /\ model.displayMode \in {"split", "overlay"}
    /\ (model.displayMode = "overlay") <=> overlayMode

\* The DisplayMode key brought a chart with samples back to split mode
C38_Witness ==
    /\ msg = [type |-> "key", key |-> "DisplayMode"]
    /\ lastOp = "SetOverlayMode"
    /\ others >= 2
    /\ model.displayMode = "split"
    /\ ~overlayMode
    /\ DataLen >= 1

====
